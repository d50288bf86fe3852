------------------------- MODULE AudioDriverProofs -------------------------
(***************************************************************************)
(* Proofs about the kernel audio driver.  First its capture stream, for    *)
(* every set of buffers and for all time; then the life of its adapter,    *)
(* for any devices, any finite set of clients and any number of starts.    *)
(*                                                                         *)
(* The stream's argument is two inequalities: the clock of the packets is  *)
(* never ahead of that of the positions (Clocks), nor behind it by a       *)
(* millisecond and the time pauses were held up (Abreast); and the buffer  *)
(* holds the last bytes moved (Holds).                                     *)
(*                                                                         *)
(* The adapter's argument is that the reference counts are no more and no  *)
(* less than who holds a reference: the cache, PortCls, the start that is  *)
(* running and the clients for ports and miniports; the extension, the     *)
(* power management, the start and the topology miniport for the adapter   *)
(* (Balanced).  Where a start is tells what it has made by then (StartOf,  *)
(* StartTells), and Owners which adapters may have anything left.          *)
(***************************************************************************)
EXTENDS CaptureStream, AdapterLife, FiniteSetTheorems, TLAPS

----------------------------------------------------------------------------
(* The capture stream: its invariant.                                      *)

\* The types of what the proofs are about.
Types ==
  /\ state \in {"stop", "acquire", "pause", "run"}
  /\ setting \in {"idle", "run", "flush", "positions", "pause"}
  /\ buffer \in [ticks : Nat, count : Nat, interval : Nat]
  /\ dma \in [stamp : Nat, carry : Nat, linear : Nat, position : Nat]
  /\ packet \in [stamp : Nat, carry : Nat, count : Nat]
  /\ timer \in [on : BOOLEAN, due : Nat, queued : BOOLEAN]
  /\ now \in Nat /\ left \in Nat /\ held \in Nat
  /\ dma.stamp <= now /\ packet.stamp <= now

\* From the stamps of a run to the flush of a pause: the packets are timed.
Ticking == \/ setting \in {"run", "flush"}
           \/ state = "run" /\ setting = "idle"

\* How SetState and its callers keep timer, buffer and state together.
Protocol ==
  /\ state # "stop" => buffer.ticks > 0
  /\ state = "stop" => packet.count = 0
  /\ setting = "run" => state = "pause"
  /\ setting \in {"flush", "positions", "pause"} => state = "run"
  /\ timer.on => Ticking /\ setting # "flush"
  /\ timer.queued => Ticking
  /\ timer.on \/ timer.queued => buffer.interval > 0

\* The clock of the packets is never ahead of that of the positions.
Counted == packet.count * buffer.interval
PacketClock == IF Ticking THEN SinceLastPacket ELSE packet.carry
DmaClock == IF Ticking \/ setting = "positions" THEN Elapsed ELSE dma.carry
Clocks ==
  /\ Counted <= dma.linear + dma.carry + left
  /\ Counted + PacketClock <= dma.linear + DmaClock + left

Inv == Types /\ Protocol /\ Clocks

----------------------------------------------------------------------------
\* Whole milliseconds and the rest make up the time again.
LEMMA MillisecondsAndRest ==
  ASSUME NEW t \in Nat
  PROVE  /\ Milliseconds(t) \in Nat /\ t % Ms \in Nat
         /\ Milliseconds(t) + (t % Ms) = t
<1>1. t \div 2 \in Nat /\ t % 2 \in 0..1 /\ t = 2 * (t \div 2) + (t % 2)
  OBVIOUS
<1> QED BY <1>1 DEF Milliseconds, Ms

\* An update moves the clock of the positions to the present and loses nothing of it.
LEMMA UpdateIsExact ==
  ASSUME Inv, buffer.ticks > 0, UpdatePosition
  PROVE  /\ dma' \in [stamp : Nat, carry : Nat, linear : Nat, position : Nat]
         /\ dma'.stamp = now
         /\ dma'.linear + dma'.carry = dma.linear + Elapsed
         /\ Elapsed \in Nat /\ Elapsed >= dma.carry
<1>1. Elapsed \in Nat /\ Elapsed >= dma.carry
  BY DEF Inv, Types, Elapsed
<1>2. /\ Milliseconds(Elapsed) \in Nat /\ Elapsed % Ms \in Nat
      /\ Milliseconds(Elapsed) + (Elapsed % Ms) = Elapsed
  BY <1>1, MillisecondsAndRest
<1> DEFINE moved == Milliseconds(Elapsed)
           rest == Elapsed % Ms
           place == (dma.position + moved) % buffer.ticks
<1>3. moved \in Nat /\ rest \in Nat /\ moved + rest = Elapsed
  BY <1>2
<1>4. place \in Nat
  BY <1>3 DEF Inv, Types
<1>5. dma' = [stamp |-> now, carry |-> rest, linear |-> dma.linear + moved,
              position |-> place]
  BY DEF UpdatePosition, Advanced
<1> HIDE DEF moved, rest, place
<1>6. dma.linear \in Nat /\ now \in Nat
  BY DEF Inv, Types
<1> QED BY <1>1, <1>3, <1>4, <1>5, <1>6

\* Initially there is no buffer and no time.
LEMMA InitInv == Init => Inv
  BY DEF Init, Inv, Types, Protocol, Clocks, Counted, PacketClock, DmaClock, Ticking,
         SinceLastPacket, Elapsed, NoBuffer

\* A buffer comes and goes while the stream is stopped and nothing is counted.
LEMMA BufferStep ==
  ASSUME Inv, AllocateBuffer \/ FreeBuffer
  PROVE  Inv'
<1>1. buffer' \in [ticks : Nat, count : Nat, interval : Nat]
  <2>1. CASE AllocateBuffer
    <3>1. PICK b \in Buffers :
            buffer' = [ticks |-> b.ticks, count |-> b.count,
                       interval |-> IF b.count = 0 THEN buffer.interval
                                    ELSE Milliseconds(b.ticks \div b.count)]
      BY <2>1 DEF AllocateBuffer
    <3>2. b.ticks \in Nat /\ b.count \in Nat
      BY StreamAssumption
    <3>3. b.count # 0 => b.ticks \div b.count \in Nat
      BY <3>2
    <3>4. b.count # 0 => Milliseconds(b.ticks \div b.count) \in Nat
      BY <3>3, MillisecondsAndRest
    <3> QED BY <3>1, <3>2, <3>4 DEF Inv, Types
  <2>2. CASE FreeBuffer
    BY <2>2 DEF FreeBuffer, Inv, Types
  <2> QED BY <2>1, <2>2
<1>2. /\ state = "stop" /\ setting = "idle"
      /\ UNCHANGED <<state, setting, dma, packet, timer, now, left, held>>
  BY DEF AllocateBuffer, FreeBuffer, port
<1>3. packet.count = 0 /\ Counted = 0 /\ Counted' = 0 /\ ~Ticking
  BY <1>1, <1>2 DEF Inv, Types, Protocol, Counted, Ticking
<1>4. Types'
  BY <1>1, <1>2 DEF Inv, Types
<1>5. Protocol'
  BY <1>1, <1>2, <1>3 DEF Inv, Types, Protocol, Ticking
<1>6. Clocks'
  BY <1>1, <1>2, <1>3 DEF Inv, Types, Clocks, PacketClock, DmaClock, Ticking,
                      SinceLastPacket, Elapsed
<1> QED BY <1>4, <1>5, <1>6 DEF Inv

\* A client's question moves the positions only.
LEMMA PositionStep ==
  ASSUME Inv, GetPosition
  PROVE  Inv'
<1>1. state = "run" /\ buffer.ticks > 0 /\ UpdatePosition
  BY DEF GetPosition, Inv, Types, Protocol
<1>2. UNCHANGED <<state, setting, buffer, packet, timer, now, left, held>>
  BY DEF GetPosition
<1>3. /\ dma' \in [stamp : Nat, carry : Nat, linear : Nat, position : Nat]
      /\ dma'.stamp = now
      /\ dma'.linear + dma'.carry = dma.linear + Elapsed
      /\ Elapsed \in Nat /\ Elapsed >= dma.carry
  BY <1>1, UpdateIsExact
<1>4. Types' /\ Protocol'
  BY <1>2, <1>3 DEF Inv, Types, Protocol, Ticking
<1>5. Counted \in Int /\ Counted' = Counted
  BY <1>2 DEF Inv, Types, Counted
<1>6. /\ Ticking' = Ticking /\ SinceLastPacket' = SinceLastPacket
      /\ Elapsed' = dma'.carry
  BY <1>2, <1>3 DEF Ticking, SinceLastPacket, Elapsed, Inv, Types
<1>7. PacketClock' = PacketClock /\ PacketClock \in Int
  BY <1>2, <1>6 DEF PacketClock, Inv, Types, SinceLastPacket
<1>8. DmaClock' = dma'.carry /\ DmaClock <= Elapsed /\ DmaClock \in Int
  BY <1>2, <1>3, <1>6 DEF DmaClock, Inv, Types
<1>9. Clocks'
  BY <1>2, <1>3, <1>5, <1>7, <1>8 DEF Clocks, Inv, Types
<1> QED BY <1>4, <1>9 DEF Inv

\* The expiring timer queues a DPC, on a stream that ticks.
LEMMA ExpiryStep ==
  ASSUME Inv, Expires
  PROVE  Inv'
<1>1. UNCHANGED <<state, setting, buffer, dma, packet, now, left, held>>
  BY DEF Expires
<1>2. timer.on /\ timer'.on = timer.on /\ timer' \in [on : BOOLEAN, due : Nat, queued : BOOLEAN]
  BY DEF Expires, Inv, Types, Ms
<1>3. Types' /\ Protocol'
  BY <1>1, <1>2 DEF Inv, Types, Protocol, Ticking
<1>4. Clocks'
  BY <1>1 DEF Inv, Clocks, Counted, PacketClock, DmaClock, Ticking, SinceLastPacket, Elapsed
<1> QED BY <1>3, <1>4 DEF Inv

\* One packet more, of one interval more.
LEMMA OneMore ==
  ASSUME NEW a \in Nat, NEW b \in Nat
  PROVE  (a + 1) * b = a * b + b /\ a * b \in Nat
  OBVIOUS

\* The DPC counts a packet only when its clock has gone on for an interval, and brings
\* the positions up to the same moment.
LEMMA DpcStep ==
  ASSUME Inv, TimerNotifyRT
  PROVE  Inv'
<1>1. /\ Ticking /\ buffer.interval > 0 /\ buffer.ticks > 0 /\ state # "stop"
      /\ timer' = [timer EXCEPT !.queued = FALSE]
      /\ UNCHANGED <<state, setting, buffer, now, left, held>>
  BY DEF TimerNotifyRT, Inv, Types, Protocol, Ticking
<1>2. /\ timer' \in [on : BOOLEAN, due : Nat, queued : BOOLEAN]
      /\ timer'.on = timer.on /\ timer'.queued = FALSE
  BY <1>1 DEF Inv, Types
<1>3. Ticking' = Ticking
  BY <1>1 DEF Ticking
<1>4. CASE UNCHANGED <<packet, dma>>
  <2>1. Types' /\ Protocol'
    BY <1>1, <1>2, <1>3, <1>4 DEF Inv, Types, Protocol
  <2>2. Clocks'
    BY <1>1, <1>3, <1>4 DEF Inv, Clocks, Counted, PacketClock, DmaClock, SinceLastPacket,
                            Elapsed
  <2> QED BY <2>1, <2>2 DEF Inv
<1>5. CASE /\ Milliseconds(SinceLastPacket) >= buffer.interval
           /\ packet' = [stamp |-> now, carry |-> SinceLastPacket - buffer.interval,
                         count |-> packet.count + 1]
           /\ UpdatePosition
  <2>1. SinceLastPacket \in Nat /\ buffer.interval \in Nat /\ packet.count \in Nat
        /\ now \in Nat /\ left \in Nat /\ dma.linear \in Nat
    BY DEF Inv, Types, SinceLastPacket
  <2>2. SinceLastPacket >= buffer.interval
    <3>1. /\ Milliseconds(SinceLastPacket) \in Nat /\ SinceLastPacket % Ms \in Nat
          /\ Milliseconds(SinceLastPacket) + (SinceLastPacket % Ms) = SinceLastPacket
      BY <2>1, MillisecondsAndRest
    <3> QED BY <1>5, <2>1, <3>1
  <2>3. /\ dma' \in [stamp : Nat, carry : Nat, linear : Nat, position : Nat]
        /\ dma'.stamp = now
        /\ dma'.linear + dma'.carry = dma.linear + Elapsed
        /\ Elapsed \in Nat
    BY <1>1, <1>5, UpdateIsExact
  <2>4. /\ packet' \in [stamp : Nat, carry : Nat, count : Nat]
        /\ packet'.stamp = now /\ packet'.count = packet.count + 1
        /\ packet'.carry = SinceLastPacket - buffer.interval
    BY <1>5, <2>1, <2>2
  <2>5. Types' /\ Protocol'
    BY <1>1, <1>2, <1>3, <2>3, <2>4 DEF Inv, Types, Protocol
  <2>6. Counted' = Counted + buffer.interval /\ Counted \in Nat
    BY <1>1, <2>1, <2>4, OneMore DEF Counted
  <2>7. PacketClock' = SinceLastPacket - buffer.interval /\ DmaClock' = dma'.carry
    <3>1. SinceLastPacket' = packet'.carry /\ Elapsed' = dma'.carry
      BY <1>1, <2>1, <2>3, <2>4 DEF SinceLastPacket, Elapsed
    <3> QED BY <1>1, <1>3, <2>4, <3>1 DEF PacketClock, DmaClock
  <2>8. PacketClock = SinceLastPacket /\ DmaClock = Elapsed
    BY <1>1 DEF PacketClock, DmaClock
  <2>9. Counted + SinceLastPacket <= dma.linear + Elapsed + left
    BY <2>8 DEF Inv, Clocks
  <2>10. Clocks'
    BY <1>1, <2>1, <2>2, <2>3, <2>6, <2>7, <2>9 DEF Clocks
  <2> QED BY <2>5, <2>10 DEF Inv
<1> QED BY <1>4, <1>5 DEF TimerNotifyRT

\* Both clocks tick alike.
LEMMA TimeStep ==
  ASSUME Inv, Time
  PROVE  Inv'
<1>1. /\ now' = now + 1 /\ held' \in {held, held + 1}
      /\ UNCHANGED <<state, setting, buffer, dma, packet, timer, left>>
  BY DEF Time
<1>2. Types' /\ Protocol'
  BY <1>1 DEF Inv, Types, Protocol, Ticking
<1>3. Counted' = Counted /\ Counted \in Nat
  BY <1>1 DEF Inv, Types, Counted
<1>4. SinceLastPacket' = SinceLastPacket + 1 /\ Elapsed' = Elapsed + 1
  BY <1>1 DEF SinceLastPacket, Elapsed, Inv, Types
<1>5. SinceLastPacket \in Nat /\ Elapsed \in Nat /\ Ticking' = Ticking
  BY <1>1 DEF SinceLastPacket, Elapsed, Inv, Types, Ticking
<1>6. Clocks'
  BY <1>1, <1>3, <1>4, <1>5 DEF Inv, Types, Clocks, PacketClock, DmaClock
<1> QED BY <1>2, <1>6 DEF Inv

\* Acquire and back: nothing ticks.
LEMMA AcquireStep ==
  ASSUME Inv, Acquire
  PROVE  Inv'
<1>1. /\ state \in {"stop", "acquire", "pause"} /\ state' \in {"acquire", "pause"}
      /\ setting = "idle" /\ buffer.ticks > 0
      /\ UNCHANGED <<setting, buffer, dma, packet, timer, now, left, held>>
  BY DEF Acquire, Sets, Inv, Types, Protocol
<1>2. ~Ticking /\ ~Ticking'
  BY <1>1 DEF Ticking
<1>3. Types' /\ Protocol'
  BY <1>1, <1>2 DEF Inv, Types, Protocol
<1>4. Clocks'
  BY <1>1, <1>2 DEF Inv, Clocks, Counted, PacketClock, DmaClock
<1> QED BY <1>3, <1>4 DEF Inv

\* A stop forgets positions and packets; the time left over is what it allows.
LEMMA StopStep ==
  ASSUME Inv, Stop
  PROVE  Inv'
<1>1. /\ state = "acquire" /\ state' = "stop" /\ setting = "idle"
      /\ packet' = [packet EXCEPT !.count = 0]
      /\ dma' = [dma EXCEPT !.linear = 0, !.position = 0]
      /\ left' = packet.carry /\ held' = 0
      /\ UNCHANGED <<setting, buffer, timer, now>>
  BY DEF Stop, Sets
<1>2. ~Ticking /\ ~Ticking'
  BY <1>1 DEF Ticking
<1>3. /\ packet' \in [stamp : Nat, carry : Nat, count : Nat]
      /\ packet'.count = 0 /\ packet'.carry = packet.carry /\ packet'.stamp = packet.stamp
  BY <1>1 DEF Inv, Types
<1>4. /\ dma' = [stamp |-> dma.stamp, carry |-> dma.carry, linear |-> 0, position |-> 0]
      /\ dma.stamp \in Nat /\ dma.carry \in Nat
  BY <1>1 DEF Inv, Types
<1>5. Types' /\ Protocol'
  BY <1>1, <1>2, <1>3, <1>4 DEF Inv, Types, Protocol
<1>6. Counted' = 0
  BY <1>1, <1>3 DEF Counted, Inv, Types
<1>7. PacketClock' = packet.carry /\ DmaClock' = dma.carry
  BY <1>1, <1>2, <1>3, <1>4 DEF PacketClock, DmaClock
<1>8. Clocks'
  BY <1>1, <1>3, <1>4, <1>6, <1>7 DEF Clocks, Inv, Types
<1> QED BY <1>5, <1>8 DEF Inv

\* A run stamps both clocks at one moment.
LEMMA RunStep ==
  ASSUME Inv, RunStarts \/ RunIsSet
  PROVE  Inv'
<1>1. CASE RunStarts
  <2>1. /\ state = "pause" /\ setting = "idle" /\ setting' = "run"
        /\ dma' = [dma EXCEPT !.stamp = now] /\ packet' = [packet EXCEPT !.stamp = now]
        /\ timer' = IF buffer.interval > 0 THEN [timer EXCEPT !.on = TRUE, !.due = now + Ms]
                    ELSE timer
        /\ UNCHANGED <<state, buffer, now, left, held>>
    BY <1>1 DEF RunStarts
  <2>2. ~Ticking /\ Ticking'
    BY <2>1 DEF Ticking
  <2>3. /\ timer' \in [on : BOOLEAN, due : Nat, queued : BOOLEAN]
        /\ timer'.queued = timer.queued /\ (timer'.on => buffer.interval > 0)
    <3>1. CASE buffer.interval > 0
      <4>1. timer' = [on |-> TRUE, due |-> now + Ms, queued |-> timer.queued]
        BY <2>1, <3>1 DEF Inv, Types
      <4> QED BY <3>1, <4>1 DEF Inv, Types, Ms
    <3>2. CASE ~(buffer.interval > 0)
      BY <2>1, <2>2, <3>2 DEF Inv, Types, Protocol
    <3> QED BY <3>1, <3>2
  <2>4. Types' /\ Protocol'
    BY <2>1, <2>2, <2>3 DEF Inv, Types, Protocol
  <2>5. Counted' = Counted /\ dma'.linear = dma.linear /\ dma'.carry = dma.carry
    BY <2>1 DEF Counted, Inv, Types
  <2>6. PacketClock' = packet.carry /\ DmaClock' = dma.carry
    BY <2>1, <2>2 DEF PacketClock, DmaClock, SinceLastPacket, Elapsed, Inv, Types
  <2>7. PacketClock = packet.carry /\ DmaClock = dma.carry
    BY <2>1, <2>2 DEF PacketClock, DmaClock
  <2>8. Clocks'
    BY <2>1, <2>5, <2>6, <2>7 DEF Clocks, Inv
  <2> QED BY <2>4, <2>8 DEF Inv
<1>2. CASE RunIsSet
  <2>1. /\ setting = "run" /\ state = "pause" /\ state' = "run" /\ setting' = "idle"
        /\ UNCHANGED <<buffer, dma, packet, timer, now, left, held>>
    BY <1>2 DEF RunIsSet, Inv, Protocol
  <2>2. Ticking /\ Ticking'
    BY <2>1 DEF Ticking
  <2>3. Types' /\ Protocol'
    BY <2>1, <2>2 DEF Inv, Types, Protocol
  <2>4. Clocks'
    BY <2>1, <2>2 DEF Inv, Clocks, Counted, PacketClock, DmaClock, SinceLastPacket, Elapsed
  <2> QED BY <2>3, <2>4 DEF Inv
<1> QED BY <1>1, <1>2

\* A pause cancels the timer and waits for its DPC, saves the packets' clock, and only
\* then brings the positions up to date.
LEMMA PauseStep ==
  ASSUME Inv, PauseStarts \/ PauseFlushes \/ PausePositions \/ PauseIsSet
  PROVE  Inv'
<1>1. CASE PauseStarts
  <2>1. /\ state = "run" /\ setting = "idle"
        /\ setting' = IF buffer.interval > 0 THEN "flush" ELSE "positions"
        /\ timer' = [on |-> FALSE, due |-> 0, queued |-> timer.queued]
        /\ UNCHANGED <<state, buffer, dma, packet, now, left, held>>
    BY <1>1 DEF PauseStarts
  <2>2. timer' = [on |-> FALSE, due |-> 0, queued |-> timer.queued] /\ timer.queued \in BOOLEAN
    BY <2>1 DEF Inv, Types
  <2>3. Ticking /\ (Ticking' <=> buffer.interval > 0)
    BY <2>1 DEF Ticking, Inv, Types
  <2>4. Types' /\ Protocol'
    BY <2>1, <2>2, <2>3 DEF Inv, Types, Protocol
  <2>5. Counted' = Counted /\ Counted \in Nat
    BY <2>1 DEF Counted, Inv, Types
  <2>6. PacketClock' <= PacketClock /\ DmaClock' = DmaClock
        /\ PacketClock' \in Int /\ PacketClock \in Int /\ DmaClock \in Int
    BY <2>1, <2>3 DEF PacketClock, DmaClock, SinceLastPacket, Elapsed, Inv, Types
  <2>7. Clocks'
    BY <2>1, <2>5, <2>6 DEF Clocks, Inv, Types
  <2> QED BY <2>4, <2>7 DEF Inv
<1>2. CASE PauseFlushes
  <2>1. /\ setting = "flush" /\ state = "run" /\ ~timer.queued /\ setting' = "positions"
        /\ packet' = [packet EXCEPT !.carry = SinceLastPacket]
        /\ UNCHANGED <<state, buffer, dma, timer, now, left, held>>
    BY <1>2 DEF PauseFlushes, Inv, Protocol
  <2>2. Ticking /\ ~Ticking'
    BY <2>1 DEF Ticking
  <2>3. SinceLastPacket \in Nat
    BY DEF SinceLastPacket, Inv, Types
  <2>4. packet' = [stamp |-> packet.stamp, carry |-> SinceLastPacket, count |-> packet.count]
    BY <2>1 DEF Inv, Types
  <2>5. Types'
    BY <2>1, <2>3, <2>4 DEF Inv, Types
  <2>6. Protocol'
    BY <2>1, <2>2, <2>4 DEF Inv, Types, Protocol
  <2>7. Counted' = Counted /\ PacketClock' = PacketClock /\ DmaClock' = DmaClock
    BY <2>1, <2>2, <2>4 DEF Counted, PacketClock, DmaClock, Elapsed
  <2>8. Clocks'
    BY <2>1, <2>7 DEF Clocks, Inv
  <2> QED BY <2>5, <2>6, <2>8 DEF Inv
<1>3. CASE PausePositions
  <2>1. /\ setting = "positions" /\ state = "run" /\ setting' = "pause" /\ UpdatePosition
        /\ UNCHANGED <<state, buffer, packet, timer, now, left, held>>
    BY <1>3 DEF PausePositions, Inv, Protocol
  <2>2. ~Ticking /\ ~Ticking'
    BY <2>1 DEF Ticking
  <2>3. /\ dma' \in [stamp : Nat, carry : Nat, linear : Nat, position : Nat]
        /\ dma'.stamp = now
        /\ dma'.linear + dma'.carry = dma.linear + Elapsed
        /\ Elapsed \in Nat /\ Elapsed >= dma.carry
    <3>1. buffer.ticks > 0
      BY <2>1 DEF Inv, Types, Protocol
    <3> QED BY <2>1, <3>1, UpdateIsExact
  <2>4. Types' /\ Protocol'
    BY <2>1, <2>2, <2>3 DEF Inv, Types, Protocol
  <2>5. Counted' = Counted /\ Counted \in Nat
    BY <2>1 DEF Counted, Inv, Types
  <2>6. PacketClock' = PacketClock /\ PacketClock \in Nat
    BY <2>1, <2>2 DEF PacketClock, Inv, Types
  <2>7. DmaClock = Elapsed /\ DmaClock' = dma'.carry
    BY <2>1, <2>2 DEF DmaClock
  <2>8. Clocks'
    BY <2>1, <2>3, <2>5, <2>6, <2>7 DEF Clocks, Inv, Types
  <2> QED BY <2>4, <2>8 DEF Inv
<1>4. CASE PauseIsSet
  <2>1. /\ setting = "pause" /\ state = "run" /\ state' = "pause" /\ setting' = "idle"
        /\ UNCHANGED <<buffer, dma, packet, timer, now, left, held>>
    BY <1>4 DEF PauseIsSet, Inv, Protocol
  <2>2. ~Ticking /\ ~Ticking'
    BY <2>1 DEF Ticking
  <2>3. Types' /\ Protocol'
    BY <2>1, <2>2 DEF Inv, Types, Protocol
  <2>4. Clocks'
    BY <2>1, <2>2 DEF Inv, Clocks, Counted, PacketClock, DmaClock
  <2> QED BY <2>3, <2>4 DEF Inv
<1> QED BY <1>1, <1>2, <1>3, <1>4

\* Reads of the packet counter, and steps of nobody, leave all of it alone.
LEMMA ReaderStep ==
  ASSUME Inv, ReadsCounter \/ ReturnsPacket \/ UNCHANGED vars
  PROVE  Inv'
<1>1. UNCHANGED <<state, setting, buffer, dma, packet, timer, now, left, held>>
  BY DEF ReadsCounter, ReturnsPacket, vars, port
<1> QED BY <1>1 DEF Inv, Types, Protocol, Clocks, Counted, PacketClock, DmaClock, Ticking,
               SinceLastPacket, Elapsed

----------------------------------------------------------------------------
\* Every step of the stream keeps the invariant.
THEOREM Invariant == Spec => []Inv
<1>1. Init => Inv
  BY InitInv
<1>2. Inv /\ [Next]_vars => Inv'
  BY BufferStep, PositionStep, ExpiryStep, DpcStep, TimeStep, AcquireStep, StopStep,
     RunStep, PauseStep, ReaderStep DEF Next, SetState
<1> QED BY <1>1, <1>2, PTL DEF Spec

\* No timer and no DPC outlives the pause that comes before the buffer may be freed,
\* whatever the buffers and however late the DPC.
THEOREM DpcIsSafe == Spec => []DpcHasItsBuffer
<1>1. Inv => DpcHasItsBuffer
  BY DEF Inv, Types, Protocol, Ticking, DpcHasItsBuffer
<1> QED BY <1>1, Invariant, PTL

\* The packets counted are filled, through any number of pauses and stops, for every
\* buffer and for all time.
THEOREM PacketsAreFilled == Spec => []PacketsAreComplete
<1>1. Inv => PacketsAreComplete
  BY DEF Inv, Clocks, Counted, PacketsAreComplete
<1> QED BY <1>1, Invariant, PTL

----------------------------------------------------------------------------
(* The capture stream: what is in the buffer.                              *)

\* A division is exact up to its rest.
LEMMA DivisionAndRest ==
  ASSUME NEW a \in Nat, NEW n \in Nat \ {0}
  PROVE  /\ a \div n \in Nat /\ a % n \in 0..n - 1
         /\ a = n * (a \div n) + (a % n)
  OBVIOUS

\* No multiple of n lies between 0 and n.
LEMMA NotInBetween ==
  ASSUME NEW n \in Nat \ {0}, NEW k \in Int, n * k < n, n * k >= 0
  PROVE  n * k = 0
<1>1. CASE k >= 1
  <2>1. n * k = n + n * (k - 1) /\ n * (k - 1) \in Int
    OBVIOUS
  <2>2. n * (k - 1) >= 0
    BY <1>1
  <2> QED BY <2>1, <2>2
<1>2. CASE k <= 0
  <2>1. n * k <= 0
    BY <1>2
  <2> QED BY <2>1
<1> QED BY <1>1, <1>2

\* Fewer than n bytes share no slot of a buffer of n.
LEMMA OneSlot ==
  ASSUME NEW a \in Nat, NEW b \in Nat, NEW n \in Nat \ {0}, b <= a, a - b < n,
         a % n = b % n
  PROVE  a = b
<1> DEFINE p == a \div n
           q == b \div n
           r == a % n
<1>1. p \in Nat /\ q \in Nat /\ r \in Nat /\ a = n * p + r /\ b = n * q + r
  <2>1. p \in Nat /\ r \in 0..n - 1 /\ a = n * p + r
    BY DivisionAndRest, Zenon
  <2>2. q \in Nat /\ b = n * q + (b % n)
    BY DivisionAndRest, Zenon
  <2> HIDE DEF p, q
  <2>3. b % n = r /\ r \in Nat
    BY <2>1
  <2> QED BY <2>1, <2>2, <2>3
<1> HIDE DEF p, q, r
<1>2. n * p = n * q + n * (p - q) /\ n * p \in Int /\ n * q \in Int
      /\ n * (p - q) \in Int
  <2>1. p = q + (p - q) /\ p - q \in Int
    BY <1>1
  <2>2. \A i, j \in Int : n * (i + j) = n * i + n * j
    OBVIOUS
  <2> DEFINE k == p - q
  <2>3. n * (q + k) = n * q + n * k
    BY <1>1, <2>1, <2>2
  <2> QED BY <1>1, <2>1, <2>3
<1>3. a - b = n * (p - q)
  BY <1>1, <1>2
<1>4. n * (p - q) = 0
  BY <1>1, <1>3, NotInBetween
<1> QED BY <1>3, <1>4

\* What is in the buffer: the last bytes that were moved, each where it belongs.
Holds(bytes, linear, size) ==
  \A l \in Nat : linear - size <= l /\ l < linear => bytes[l % size] = l

\* WriteBytes puts each byte where it belongs, over the oldest, however many there are.
LEMMA WritesHold ==
  ASSUME NEW n \in Nat \ {0}, NEW from \in Nat, NEW to \in Nat, from <= to,
         NEW old, NEW new, Holds(old, from, n),
         \A s \in 0..n - 1 : LET fills == {l \in from..to - 1 : l % n = s}
                             IN  new[s] = IF fills = {} THEN old[s] ELSE Max(fills)
  PROVE  Holds(new, to, n)
<1> SUFFICES ASSUME NEW l \in Nat, to - n <= l, l < to PROVE new[l % n] = l
  BY DEF Holds
<1>1. PICK s : s = l % n
  OBVIOUS
<1>2. PICK fills : fills = {k \in from..to - 1 : k % n = s}
  OBVIOUS
<1>3. s \in 0..n - 1
  BY <1>1, DivisionAndRest, Zenon
<1>4. new[s] = IF fills = {} THEN old[s] ELSE Max(fills)
  BY <1>2, <1>3
<1>5. \A k : k \in fills <=> k \in from..to - 1 /\ k % n = s
  BY <1>2
<1>6. ASSUME NEW k \in fills PROVE k \in Nat /\ from <= k /\ k <= l
  <2>1. k \in Nat /\ from <= k /\ k < to /\ k % n = l % n
    BY <1>1, <1>5
  <2>2. CASE l <= k
    <3>1. k - l < n
      BY <2>1
    <3>2. k = l
      BY <2>1, <2>2, <3>1, OneSlot, Zenon
    <3> QED BY <2>1, <3>2
  <2> QED BY <2>1, <2>2
<1>7. CASE l >= from
  <2>1. l \in from..to - 1 /\ l % n = s
    BY <1>1, <1>7
  <2>2. l \in fills
    BY <1>5, <2>1, Zenon
  <2>3. Max(fills) = l
    <3>1. \E m \in fills : \A k \in fills : m >= k
      BY <1>6, <2>2
    <3>2. Max(fills) \in fills /\ \A k \in fills : Max(fills) >= k
      BY <3>1 DEF Max
    <3>3. PICK m : m = Max(fills)
      OBVIOUS
    <3>4. m \in Nat /\ m <= l /\ m >= l
      BY <1>6, <2>2, <3>2, <3>3
    <3> QED BY <3>3, <3>4
  <2> QED BY <1>1, <1>4, <2>2, <2>3
<1>8. CASE l < from
  <2>1. fills = {}
    BY <1>6, <1>8
  <2>2. old[l % n] = l
    BY <1>8 DEF Holds
  <2> QED BY <1>1, <1>4, <2>1, <2>2
<1> QED BY <1>7, <1>8

\* The buffer is filled without gaps, in whole milliseconds.
Filling ==
  /\ state = "stop" => dma.linear = 0
  /\ dma.carry < Ms /\ dma.linear % Ms = 0 /\ buffer.interval % Ms = 0
  /\ buffer.count > 0 => buffer.ticks > 0 /\ buffer.ticks % buffer.count = 0
  /\ DOMAIN mem = 0..buffer.ticks - 1
  /\ buffer.ticks > 0 => Holds(mem, dma.linear, buffer.ticks)

\* The clock of the positions is ahead of that of the packets by less than a millisecond
\* and the time the pauses were held up; until the state is set it may still be asked.
Reached == IF Ticking \/ EndsPause THEN Elapsed ELSE dma.carry
Abreast ==
  buffer.interval > 0 => dma.linear + Reached < Counted + PacketClock + held + Ms

\* Whole milliseconds stay whole milliseconds.
LEMMA WholeMilliseconds ==
  ASSUME NEW t \in Nat, NEW m \in Nat, m % Ms = 0
  PROVE  /\ Milliseconds(t) % Ms = 0 /\ (m + Milliseconds(t)) % Ms = 0 /\ t % Ms < Ms
         /\ t % Ms \in Nat
<1>1. t \div 2 \in Nat
  OBVIOUS
<1> DEFINE q == t \div 2
<1>2. q \in Nat
  BY <1>1
<1> HIDE DEF q
<1>3. (q * 2) % 2 = 0 /\ (m + q * 2) % 2 = 0
  BY <1>2 DEF Ms
<1> QED BY <1>3 DEF Milliseconds, Ms, q

\* UpdatePosition fills on.
LEMMA UpdateFills ==
  ASSUME Inv, Filling, buffer.ticks > 0, UpdatePosition, UNCHANGED buffer,
         state # "stop", UNCHANGED <<state, now>>
  PROVE  Filling'
<1>1. PICK e, n, from, moved, to :
        /\ e = Elapsed /\ n = buffer.ticks /\ from = dma.linear
        /\ moved = Milliseconds(Elapsed) /\ to = dma.linear + Milliseconds(Elapsed)
  OBVIOUS
<1>2. e \in Nat /\ n \in Nat \ {0} /\ from \in Nat
  <2>1. /\ buffer.ticks \in Nat /\ dma.linear \in Nat /\ dma.carry \in Nat
        /\ dma.stamp \in Nat /\ now \in Nat /\ dma.stamp <= now
    BY DEF Inv, Types
  <2>2. Elapsed \in Nat
    BY <2>1 DEF Elapsed
  <2> QED BY <1>1, <2>1, <2>2
<1>3. moved \in Nat /\ moved = Milliseconds(e) /\ to = from + moved /\ to \in Nat
  <2>1. Milliseconds(e) \in Nat
    BY <1>2, MillisecondsAndRest, Zenon
  <2>2. moved = Milliseconds(e) /\ to = from + moved
    BY <1>1, Zenon
  <2> QED BY <1>2, <2>1, <2>2
<1>4. to % Ms = 0 /\ e % Ms < Ms
  <2>1. from \in Nat /\ from % Ms = 0
    BY <1>1, <1>2, Zenon DEF Filling
  <2>2. (from + Milliseconds(e)) % Ms = 0 /\ e % Ms < Ms
    BY <1>2, <2>1, WholeMilliseconds, Zenon
  <2> QED BY <1>3, <2>2, Zenon
<1>5. PICK place : dma' = [stamp |-> now, carry |-> e % Ms, linear |-> to, position |-> place]
  BY <1>1 DEF UpdatePosition, Advanced
<1>6. dma'.stamp = now /\ dma'.carry = e % Ms /\ dma'.linear = to
  BY <1>5
<1>7. mem' = [s \in DOMAIN mem |->
                LET fills == {l \in from..to - 1 : l % n = s}
                IN  IF fills = {} THEN mem[s] ELSE Max(fills)]
  BY <1>1 DEF UpdatePosition, Advanced, WriteBytes
<1>8. DOMAIN mem = 0..n - 1 /\ Holds(mem, from, n)
  BY <1>1, <1>2 DEF Filling
<1>9. Holds(mem', to, n)
  <2>1. \A s \in 0..n - 1 : LET fills == {l \in from..to - 1 : l % n = s}
                            IN  mem'[s] = IF fills = {} THEN mem[s] ELSE Max(fills)
    BY <1>7, <1>8
  <2>2. from <= to
    BY <1>2, <1>3
  <2> QED BY <1>2, <1>3, <1>8, <2>1, <2>2, WritesHold
<1>10. DOMAIN mem' = DOMAIN mem /\ buffer' = buffer /\ now' = now
  BY <1>7
<1> QED BY <1>1, <1>4, <1>6, <1>9, <1>10 DEF Filling

\* Before the first byte any buffer will do.
LEMMA NothingIsHeld ==
  ASSUME NEW bytes, NEW n \in Nat
  PROVE  Holds(bytes, 0, n)
  BY DEF Holds

\* A buffer comes and goes empty.
LEMMA BufferFills ==
  ASSUME Inv, Filling, AllocateBuffer \/ FreeBuffer
  PROVE  Filling'
<1>1. /\ state = "stop" /\ setting = "idle"
      /\ UNCHANGED <<state, setting, dma, packet, timer, now, left, held>>
  BY DEF AllocateBuffer, FreeBuffer, port
<1>2. dma.linear = 0 /\ dma'.linear = 0 /\ dma' = dma
  BY <1>1 DEF Filling
<1>3. CASE AllocateBuffer
  <2>1. PICK b \in Buffers :
          /\ buffer' = [ticks |-> b.ticks, count |-> b.count,
                        interval |-> IF b.count = 0 THEN buffer.interval
                                     ELSE Milliseconds(b.ticks \div b.count)]
          /\ mem' = Filled(b.ticks)
    BY <1>3 DEF AllocateBuffer
  <2>2. /\ b.ticks \in Nat \ {0} /\ b.count \in Nat
        /\ b.count > 0 => b.ticks % b.count = 0
    BY StreamAssumption
  <2>3. b.count # 0 => Milliseconds(b.ticks \div b.count) % Ms = 0
    <3>1. SUFFICES ASSUME b.count # 0 PROVE Milliseconds(b.ticks \div b.count) % Ms = 0
      OBVIOUS
    <3>2. b.ticks \div b.count \in Nat
      BY <2>2, <3>1
    <3>3. 0 \in Nat /\ 0 % Ms = 0
      BY DEF Ms
    <3> QED BY <3>2, <3>3, WholeMilliseconds, Zenon
  <2>4. /\ buffer'.ticks = b.ticks /\ buffer'.count = b.count
        /\ buffer'.interval = IF b.count = 0 THEN buffer.interval
                              ELSE Milliseconds(b.ticks \div b.count)
    BY <2>1
  <2>5. DOMAIN mem' = 0..buffer'.ticks - 1
    BY <2>1, <2>4 DEF Filled
  <2>6. buffer'.interval % Ms = 0
    BY <2>3, <2>4 DEF Filling
  <2>7. Holds(mem', dma'.linear, buffer'.ticks)
    BY <1>2, <2>2, <2>4, NothingIsHeld
  <2>8. buffer'.count > 0 => buffer'.ticks > 0 /\ buffer'.ticks % buffer'.count = 0
    BY <2>2, <2>4
  <2> QED BY <1>1, <1>2, <2>5, <2>6, <2>7, <2>8 DEF Filling
<1>4. CASE FreeBuffer
  <2>1. buffer' = [buffer EXCEPT !.ticks = 0, !.count = 0] /\ mem' = Filled(0)
    BY <1>4 DEF FreeBuffer
  <2>2. buffer'.ticks = 0 /\ buffer'.count = 0 /\ buffer'.interval = buffer.interval
    BY <2>1 DEF Inv, Types
  <2>3. DOMAIN mem' = 0..buffer'.ticks - 1
    BY <2>1, <2>2 DEF Filled
  <2> QED BY <1>1, <1>2, <2>2, <2>3 DEF Filling
<1> QED BY <1>3, <1>4

\* A pause ends with the positions of that moment.
LEMMA PausePositionsFills ==
  ASSUME Inv, Filling, PausePositions
  PROVE  Filling'
<1>1. /\ setting = "positions" /\ state = "run" /\ buffer.ticks > 0 /\ UpdatePosition
      /\ UNCHANGED <<state, buffer, now>>
  BY DEF PausePositions, Inv, Protocol
<1> QED BY <1>1, UpdateFills

\* A stop empties the buffer.
LEMMA StopFills ==
  ASSUME Inv, Filling, Stop
  PROVE  Filling'
<1>1. /\ state' = "stop" /\ setting = "idle" /\ setting' = "idle"
      /\ buffer' = buffer /\ now' = now
      /\ dma' = [dma EXCEPT !.linear = 0, !.position = 0]
      /\ mem' = Filled(buffer.ticks)
  BY DEF Stop, Sets
<1>2. dma'.linear = 0 /\ dma'.carry = dma.carry
  BY <1>1 DEF Inv, Types
<1>3. DOMAIN mem' = 0..buffer.ticks - 1
  BY <1>1 DEF Filled
<1>4. Holds(mem', 0, buffer.ticks)
  BY NothingIsHeld DEF Inv, Types
<1>5. 0 % Ms = 0
  BY DEF Ms
<1> QED BY <1>1, <1>2, <1>3, <1>4, <1>5 DEF Filling

\* A run stamps the clock and moves nothing.
LEMMA RunStartsFills ==
  ASSUME Inv, Filling, RunStarts
  PROVE  Filling'
<1>1. /\ state = "pause" /\ setting' = "run"
      /\ dma' = [dma EXCEPT !.stamp = now]
      /\ UNCHANGED <<state, buffer, mem, now>>
  BY DEF RunStarts
<1>2. dma'.linear = dma.linear /\ dma'.carry = dma.carry
  BY <1>1 DEF Inv, Types
<1> QED BY <1>1, <1>2 DEF Filling

\* Without a buffer nothing is filled.
LEMMA InitFilling == Init => Filling
<1> SUFFICES ASSUME Init PROVE Filling
  OBVIOUS
<1>1. /\ dma.linear = 0 /\ dma.carry = 0 /\ buffer.interval = 0 /\ buffer.count = 0
      /\ buffer.ticks = 0 /\ setting = "idle" /\ mem = Filled(0)
  BY DEF Init, NoBuffer
<1>2. 0 % Ms = 0 /\ 0 < Ms
  BY DEF Ms
<1> QED BY <1>1, <1>2 DEF Filling, Filled

\* Every step keeps the buffer filled.
LEMMA NextFills ==
  ASSUME Inv, Filling, [Next]_vars
  PROVE  Filling'
<1>1. CASE AllocateBuffer \/ FreeBuffer
  BY <1>1, BufferFills
<1>2. CASE GetPosition
  <2>1. /\ state = "run" /\ buffer.ticks > 0 /\ UpdatePosition
        /\ UNCHANGED <<state, buffer, now>>
    BY <1>2 DEF GetPosition, Inv, Protocol
  <2> QED BY <2>1, UpdateFills
<1>3. CASE TimerNotifyRT
  <2>1. UNCHANGED <<state, setting, buffer, now>>
    BY <1>3 DEF TimerNotifyRT
  <2>2. CASE UpdatePosition
    <3>1. state # "stop" /\ buffer.ticks > 0
      BY <1>3 DEF TimerNotifyRT, Inv, Protocol, Ticking
    <3> QED BY <2>1, <2>2, <3>1, UpdateFills
  <2>3. CASE UNCHANGED <<dma, mem>>
    BY <2>1, <2>3 DEF Filling
  <2> QED BY <1>3, <2>2, <2>3 DEF TimerNotifyRT
<1>4. CASE Time
  <2>1. UNCHANGED <<state, setting, buffer, mem, dma>>
    BY <1>4 DEF Time
  <2> QED BY <2>1 DEF Filling
<1>5. CASE Stop
  BY <1>5, StopFills
<1>6. CASE RunStarts
  BY <1>6, RunStartsFills
<1>7. CASE PausePositions
  BY <1>7, PausePositionsFills
<1>8. CASE \/ ReadsCounter \/ ReturnsPacket \/ Expires \/ PauseStarts \/ PauseFlushes
           \/ RunIsSet \/ PauseIsSet \/ Acquire \/ UNCHANGED vars
  <2>1. UNCHANGED <<buffer, mem, dma, now>>
    BY <1>8 DEF ReadsCounter, ReturnsPacket, Expires, PauseStarts, PauseFlushes,
                RunIsSet, PauseIsSet, Acquire, Sets, vars, port
  <2>2. state' = "stop" => state = "stop"
    BY <1>8 DEF ReadsCounter, ReturnsPacket, Expires, PauseStarts, PauseFlushes,
                RunIsSet, PauseIsSet, Acquire, Sets, vars, port
  <2> QED BY <2>1, <2>2 DEF Filling
<1> QED BY <1>1, <1>2, <1>3, <1>4, <1>5, <1>6, <1>7, <1>8 DEF Next, SetState

\* Whoever brings the positions up to date leaves the sum of what is moved and what is not.
LEMMA UpdateStaysAbreast ==
  ASSUME Inv, Filling, Abreast, GetPosition \/ PausePositions
  PROVE  Abreast'
<1>1. /\ state = "run" /\ state' = "run" /\ buffer.ticks > 0 /\ UpdatePosition
      /\ UNCHANGED <<buffer, packet, now, held>>
  BY DEF GetPosition, PausePositions, Inv, Protocol
<1>2. /\ dma' \in [stamp : Nat, carry : Nat, linear : Nat, position : Nat]
      /\ dma'.stamp = now
      /\ dma'.linear + dma'.carry = dma.linear + Elapsed
      /\ Elapsed \in Nat
  BY <1>1, UpdateIsExact
<1>3. Ticking' = Ticking /\ SinceLastPacket' = SinceLastPacket
  BY <1>1 DEF GetPosition, PausePositions, Ticking, SinceLastPacket
<1>4. Counted' = Counted /\ PacketClock' = PacketClock
  BY <1>1, <1>3 DEF Counted, PacketClock
<1>5. Reached' = dma'.carry
  BY <1>1, <1>2 DEF Reached, Elapsed, Inv, Types
<1>6. Reached = Elapsed
  BY <1>1 DEF Reached, Ticking, EndsPause, Inv, Types
<1> QED BY <1>1, <1>2, <1>4, <1>5, <1>6 DEF Abreast

\* The DPC takes an interval off the clock of the packets and counts it.
LEMMA DpcStaysAbreast ==
  ASSUME Inv, Filling, Abreast, TimerNotifyRT
  PROVE  Abreast'
<1>1. /\ Ticking /\ buffer.interval > 0 /\ buffer.ticks > 0
      /\ UNCHANGED <<state, setting, buffer, now, held>>
  BY DEF TimerNotifyRT, Inv, Types, Protocol, Ticking
<1>2. Ticking' /\ Ticking
  BY <1>1 DEF Ticking
<1>3. CASE UNCHANGED <<packet, dma>>
  BY <1>1, <1>2, <1>3 DEF Abreast, Counted, PacketClock, Reached, SinceLastPacket, Elapsed
<1>4. CASE /\ packet' = [stamp |-> now, carry |-> SinceLastPacket - buffer.interval,
                         count |-> packet.count + 1]
           /\ UpdatePosition
  <2>1. SinceLastPacket \in Nat /\ buffer.interval \in Nat /\ packet.count \in Nat
        /\ now \in Nat /\ dma.linear \in Nat /\ held \in Nat
    BY DEF Inv, Types, SinceLastPacket
  <2>2. /\ dma' \in [stamp : Nat, carry : Nat, linear : Nat, position : Nat]
        /\ dma'.stamp = now
        /\ dma'.linear + dma'.carry = dma.linear + Elapsed
        /\ Elapsed \in Nat
    BY <1>1, <1>4, UpdateIsExact
  <2>3. /\ packet'.stamp = now /\ packet'.count = packet.count + 1
        /\ packet'.carry = SinceLastPacket - buffer.interval
    BY <1>4
  <2>4. Counted' = Counted + buffer.interval /\ Counted \in Nat
    BY <1>1, <2>1, <2>3, OneMore DEF Counted
  <2>5. PacketClock' = SinceLastPacket - buffer.interval /\ Reached' = dma'.carry
    <3>1. SinceLastPacket' = packet'.carry /\ Elapsed' = dma'.carry
      BY <1>1, <2>1, <2>2, <2>3 DEF SinceLastPacket, Elapsed
    <3> QED BY <1>2, <2>3, <3>1 DEF PacketClock, Reached
  <2>6. PacketClock = SinceLastPacket /\ Reached = Elapsed
    BY <1>2 DEF PacketClock, Reached
  <2>7. dma.linear + Elapsed < Counted + SinceLastPacket + held + Ms
    BY <1>1, <2>6 DEF Abreast
  <2> QED BY <1>1, <2>1, <2>2, <2>4, <2>5, <2>7 DEF Abreast, Ms
<1> QED BY <1>3, <1>4 DEF TimerNotifyRT

\* Both clocks tick, or neither, or a pause is held up.
LEMMA TimeStaysAbreast ==
  ASSUME Inv, Abreast, Time
  PROVE  Abreast'
<1>1. /\ now' = now + 1 /\ held' = IF EndsPause THEN held + 1 ELSE held
      /\ UNCHANGED <<state, setting, buffer, dma, packet>>
  BY DEF Time
<1>2. Counted' = Counted /\ Counted \in Nat
  BY <1>1 DEF Inv, Types, Counted
<1>3. SinceLastPacket' = SinceLastPacket + 1 /\ Elapsed' = Elapsed + 1
  BY <1>1 DEF SinceLastPacket, Elapsed, Inv, Types
<1>4. /\ SinceLastPacket \in Nat /\ Elapsed \in Nat
      /\ Ticking' = Ticking /\ EndsPause' = EndsPause
  BY <1>1 DEF SinceLastPacket, Elapsed, Inv, Types, Ticking, EndsPause
<1>5. ~(Ticking /\ EndsPause)
  BY DEF Ticking, EndsPause
<1> QED BY <1>1, <1>2, <1>3, <1>4, <1>5 DEF Abreast, Inv, Types, PacketClock, Reached, Ms

\* Without a packet and without a byte the rests are all there is.
LEMMA RestsAreAbreast ==
  ASSUME Inv, Filling, ~Ticking', ~EndsPause', held' \in Nat, dma'.linear = 0,
         dma'.carry = dma.carry, packet'.carry = packet.carry, Counted' = 0
  PROVE  Abreast'
<1>1. PacketClock' = packet.carry /\ Reached' = dma.carry
  BY DEF PacketClock, Reached
<1>2. packet.carry \in Nat /\ dma.carry \in Nat /\ dma.carry < Ms
  BY DEF Filling, Inv, Types
<1> QED BY <1>1, <1>2 DEF Abreast, Ms

\* Steps that move neither clock, or only leave some of the time to the positions out.
LEMMA ClocksStayAbreast ==
  ASSUME Inv, Abreast, buffer'.interval > 0 => buffer.interval > 0,
         buffer'.interval > 0 => /\ UNCHANGED <<Counted, PacketClock>>
                                 /\ Reached' \in Int /\ Reached' <= Reached,
         dma'.linear = dma.linear, held' = held
  PROVE  Abreast'
<1>1. /\ Reached \in Int /\ Counted \in Int /\ PacketClock \in Int
      /\ dma.linear \in Int /\ held \in Int
  BY DEF Inv, Types, Reached, Counted, PacketClock, Elapsed, SinceLastPacket
<1> QED BY <1>1 DEF Abreast, Ms

\* Every step keeps the clocks together.
LEMMA NextStaysAbreast ==
  ASSUME Inv, Filling, Abreast, [Next]_vars
  PROVE  Abreast'
<1>1. CASE AllocateBuffer \/ FreeBuffer
  <2>1. /\ state = "stop" /\ setting = "idle"
        /\ UNCHANGED <<state, setting, dma, packet, held>>
    BY <1>1 DEF AllocateBuffer, FreeBuffer, port
  <2>2. packet.count = 0 /\ dma.linear = 0
    BY <2>1 DEF Inv, Protocol, Filling
  <2>3. buffer'.interval \in Int
    BY <1>1, BufferStep DEF Inv, Types
  <2>4. Counted' = 0 /\ ~Ticking' /\ ~EndsPause' /\ held' \in Nat
    BY <2>1, <2>2, <2>3 DEF Counted, Ticking, EndsPause, Inv, Types
  <2> QED BY <2>1, <2>2, <2>4, RestsAreAbreast
<1>2. CASE GetPosition \/ PausePositions
  BY <1>2, UpdateStaysAbreast
<1>3. CASE TimerNotifyRT
  BY <1>3, DpcStaysAbreast
<1>4. CASE Time
  BY <1>4, TimeStaysAbreast
<1>5. CASE Stop
  <2>1. /\ setting = "idle" /\ state' = "stop" /\ UNCHANGED <<setting, buffer>>
        /\ held' = 0
        /\ packet' = [packet EXCEPT !.count = 0]
        /\ dma' = [dma EXCEPT !.linear = 0, !.position = 0]
    BY <1>5 DEF Stop, Sets
  <2>2. /\ packet'.count = 0 /\ packet'.carry = packet.carry
        /\ dma'.linear = 0 /\ dma'.carry = dma.carry
    BY <2>1 DEF Inv, Types
  <2>3. Counted' = 0 /\ ~Ticking' /\ ~EndsPause'
    BY <2>1, <2>2 DEF Counted, Ticking, EndsPause, Inv, Types
  <2> QED BY <2>1, <2>2, <2>3, RestsAreAbreast
<1>6. CASE RunStarts
  <2>1. /\ state = "pause" /\ setting = "idle" /\ setting' = "run"
        /\ dma' = [dma EXCEPT !.stamp = now] /\ packet' = [packet EXCEPT !.stamp = now]
        /\ UNCHANGED <<state, buffer, now, held>>
    BY <1>6 DEF RunStarts
  <2>2. /\ dma'.stamp = now /\ dma'.carry = dma.carry /\ dma'.linear = dma.linear
        /\ packet'.stamp = now /\ packet'.carry = packet.carry
        /\ packet'.count = packet.count
    BY <2>1 DEF Inv, Types
  <2>3. ~Ticking /\ ~EndsPause /\ Ticking'
    BY <2>1 DEF Ticking, EndsPause
  <2>4. SinceLastPacket' = packet.carry /\ Elapsed' = dma.carry
    BY <2>1, <2>2 DEF SinceLastPacket, Elapsed, Inv, Types
  <2>5. PacketClock' = PacketClock /\ Reached' = Reached /\ Reached \in Int
    BY <2>1, <2>3, <2>4 DEF PacketClock, Reached, Inv, Types
  <2> QED BY <2>1, <2>2, <2>5, ClocksStayAbreast DEF Counted
<1>7. CASE PauseFlushes
  <2>1. /\ setting = "flush" /\ setting' = "positions" /\ state = "run"
        /\ packet' = [packet EXCEPT !.carry = SinceLastPacket]
        /\ UNCHANGED <<state, buffer, dma, now, held>>
    BY <1>7 DEF PauseFlushes, Inv, Protocol
  <2>2. packet'.carry = SinceLastPacket /\ packet'.count = packet.count
    BY <2>1 DEF Inv, Types
  <2>3. Ticking /\ ~Ticking' /\ EndsPause'
    BY <2>1 DEF Ticking, EndsPause
  <2>4. PacketClock' = PacketClock /\ Reached' = Reached /\ Reached \in Int
    BY <2>1, <2>2, <2>3 DEF PacketClock, Reached, Elapsed, Inv, Types
  <2> QED BY <2>1, <2>2, <2>4, ClocksStayAbreast DEF Counted
<1>8. CASE PauseStarts
  <2>1. /\ state = "run" /\ setting = "idle"
        /\ setting' = IF buffer.interval > 0 THEN "flush" ELSE "positions"
        /\ UNCHANGED <<state, buffer, dma, packet, now, held>>
    BY <1>8 DEF PauseStarts
  <2>2. Ticking /\ (buffer.interval > 0 => Ticking')
    BY <2>1 DEF Ticking
  <2>3. buffer.interval > 0 =>
          PacketClock' = PacketClock /\ Reached' = Reached /\ Reached \in Int
    BY <2>1, <2>2 DEF PacketClock, Reached, SinceLastPacket, Elapsed, Inv, Types
  <2> QED BY <2>1, <2>3, ClocksStayAbreast DEF Counted
<1>9. CASE ReadsCounter \/ ReturnsPacket \/ Expires \/ RunIsSet \/ Acquire \/ UNCHANGED vars
  <2>1. UNCHANGED <<buffer, dma, packet, now, held>>
    BY <1>9 DEF ReadsCounter, ReturnsPacket, Expires, RunIsSet, Acquire, Sets, vars, port
  <2>2. Ticking' = Ticking /\ EndsPause' = EndsPause
    <3>1. CASE ReadsCounter \/ ReturnsPacket \/ Expires \/ UNCHANGED vars
      BY <3>1 DEF ReadsCounter, ReturnsPacket, Expires, Ticking, EndsPause, vars, port
    <3>2. CASE RunIsSet
      BY <3>2 DEF RunIsSet, Ticking, EndsPause
    <3>3. CASE Acquire
      BY <3>3 DEF Acquire, Sets, Ticking, EndsPause
    <3> QED BY <1>9, <3>1, <3>2, <3>3
  <2>3. PacketClock' = PacketClock /\ Reached' = Reached /\ Reached \in Int
    BY <2>1, <2>2 DEF PacketClock, Reached, SinceLastPacket, Elapsed, Inv, Types
  <2> QED BY <2>1, <2>3, ClocksStayAbreast DEF Counted
\* What passed since the positions were last asked for is left out with the state set.
<1>10. CASE PauseIsSet
  <2>1. /\ setting = "pause" /\ setting' = "idle" /\ state = "run" /\ state' = "pause"
        /\ UNCHANGED <<buffer, dma, packet, now, held>>
    BY <1>10 DEF PauseIsSet, Inv, Protocol
  <2>2. ~Ticking /\ ~Ticking' /\ EndsPause /\ ~EndsPause'
    BY <2>1 DEF Ticking, EndsPause
  <2>3. PacketClock' = PacketClock
    BY <2>1, <2>2 DEF PacketClock
  <2>4. Reached' \in Int /\ Reached' <= Reached
    BY <2>1, <2>2 DEF Reached, Elapsed, Inv, Types
  <2> QED BY <2>1, <2>3, <2>4, ClocksStayAbreast DEF Counted
<1> QED BY <1>1, <1>2, <1>3, <1>4, <1>5, <1>6, <1>7, <1>8, <1>9, <1>10 DEF Next, SetState

\* Whole milliseconds less than a millisecond apart are in order.
LEMMA EvenBounds ==
  ASSUME NEW a \in Nat, NEW b \in Nat, a % Ms = 0, b % Ms = 0, a < b + Ms
  PROVE  a <= b
  BY DEF Ms

\* So are multiples of whole milliseconds whole.
LEMMA MultiplesAreEven ==
  ASSUME NEW n \in Nat, NEW i \in Nat, i % Ms = 0
  PROVE  n * i \in Nat /\ (n * i) % Ms = 0
<1>1. PICK h \in Nat : i = 2 * h
  <2>1. i \div 2 \in Nat /\ i = 2 * (i \div 2)
    BY DEF Ms
  <2> QED BY <2>1
<1>2. n * h \in Nat
  BY <1>1
<1>3. n * (2 * h) = 2 * (n * h)
  BY <1>1
<1>4. (2 * (n * h)) % 2 = 0
  BY <1>2
<1> QED BY <1>1, <1>2, <1>3, <1>4 DEF Ms

\* The packet before the counter's lies within what is held.
LEMMA PacketIsHeld ==
  ASSUME NEW n \in Nat, n > 1, NEW i \in Nat, NEW c \in Nat \ {0}, NEW linear \in Nat,
         c * i <= linear, linear <= c * i + (n - 1) * i,
         NEW l \in (c - 1) * i..c * i - 1
  PROVE  l \in Nat /\ linear - n * i <= l /\ l < linear
<1>1. /\ c * i = (c - 1) * i + i /\ n * i = (n - 1) * i + i
      /\ (c - 1) * i \in Nat /\ (n - 1) * i \in Nat
  OBVIOUS
<1> QED BY <1>1

\* What the counter announces has been moved, and not yet been written over.
LEMMA HeldPacketsAreIntact ==
  ASSUME Inv, Filling, Abreast
  PROVE  ReadableIsIntact
<1> SUFFICES ASSUME Readable, Overdue + held < (buffer.count - 1) * Size,
                    NEW l \in (packet.count - 1) * Size..packet.count * Size - 1
             PROVE  mem[l % buffer.ticks] = l
  BY DEF ReadableIsIntact
<1>1. PICK n, c, i, linear, t : /\ n = buffer.count /\ c = packet.count
                                /\ i = buffer.interval /\ linear = dma.linear
                                /\ t = buffer.ticks
  OBVIOUS
<1>2. /\ n \in Nat /\ n > 1 /\ c \in Nat \ {0} /\ i \in Nat /\ linear \in Nat
      /\ t \in Nat /\ t > 0 /\ t % n = 0 /\ t \div n = i /\ left = 0
  <2>1. /\ n \in Nat /\ n > 1 /\ c \in Nat \ {0} /\ i \in Nat /\ linear \in Nat
        /\ t \in Nat /\ t > 0 /\ left = 0
    <3>1. buffer.count > 1 /\ packet.count > 0 /\ left = 0
      BY Zenon DEF Readable
    <3>2. /\ buffer.count \in Nat /\ buffer.ticks \in Nat /\ buffer.interval \in Nat
          /\ packet.count \in Nat /\ dma.linear \in Nat
      BY DEF Inv, Types
    <3>3. buffer.count > 0
      BY <3>1, <3>2
    <3>4. buffer.ticks > 0
      BY <3>3, Zenon DEF Filling
    <3> QED BY <1>1, <3>1, <3>2, <3>4
  <2>2. buffer.ticks % buffer.count = 0
    BY <1>1, <2>1 DEF Filling
  <2>3. buffer.ticks \div buffer.count = buffer.interval
    BY Zenon DEF Readable, Size
  <2>4. t % n = 0 /\ t \div n = i
    BY <1>1, <2>2, <2>3, Zenon
  <2> QED BY <2>1, <2>4
<1>3. t = n * i
  <2>1. t = n * (t \div n) + (t % n)
    <3>1. n \in Nat \ {0}
      BY <1>2
    <3> QED BY <1>2, <3>1, DivisionAndRest, Zenon
  <2>2. n * i \in Nat
    BY <1>2
  <2>3. t = n * i + 0
    BY <1>2, <2>1, Zenon
  <2> QED BY <2>2, <2>3
<1>4. i > 0
  <2>1. i = 0 => n * i = 0
    BY <1>2
  <2> QED BY <1>2, <1>3, <2>1
<1>5. c * i \in Nat /\ (c * i) % Ms = 0 /\ linear % Ms = 0
  BY <1>1, <1>2, MultiplesAreEven DEF Filling
<1>6. (n - 1) * i \in Nat /\ ((n - 1) * i) % Ms = 0
  <2>1. n - 1 \in Nat /\ i % Ms = 0
    BY <1>1, <1>2 DEF Filling
  <2> QED BY <1>2, <2>1, MultiplesAreEven
<1>7. c * i <= linear
  <2>1. c * i <= linear + dma.carry
    BY <1>1, <1>2, <1>5 DEF Inv, Types, Clocks, Counted
  <2>2. dma.carry \in Nat /\ dma.carry < Ms
    BY DEF Filling, Inv, Types
  <2>3. PICK b : b = c * i
    OBVIOUS
  <2>4. b \in Nat /\ b < linear + Ms /\ b % Ms = 0
    BY <1>2, <1>5, <2>1, <2>2, <2>3 DEF Ms
  <2> QED BY <1>2, <1>5, <2>3, <2>4, EvenBounds
<1>8. linear <= c * i + (n - 1) * i
  <2>1. linear + Reached < c * i + PacketClock + held + Ms
    BY <1>1, <1>4 DEF Abreast, Counted
  <2>2. Reached \in Nat /\ PacketClock \in Nat /\ held \in Nat
    BY DEF Reached, PacketClock, SinceLastPacket, Elapsed, Inv, Types
  <2>3. PacketClock <= Overdue
    <3>1. Ticking => Overdue = SinceLastPacket
      BY DEF Ticking, Overdue, EndsPause, Inv, Types, Protocol
    <3>2. packet.carry <= SinceLastPacket /\ packet.carry \in Nat /\ SinceLastPacket \in Nat
      BY DEF SinceLastPacket, Inv, Types
    <3>3. CASE Ticking
      BY <3>1, <3>2, <3>3 DEF PacketClock
    <3>4. CASE ~Ticking
      <4>1. Overdue = packet.carry \/ Overdue = SinceLastPacket
        BY Zenon DEF Overdue
      <4> QED BY <3>2, <3>4, <4>1 DEF PacketClock
    <3> QED BY <3>3, <3>4
  <2>4. Overdue \in Nat
    BY DEF Overdue, SinceLastPacket, Inv, Types
  <2>5. Overdue + held < (n - 1) * i
    BY <1>1, <1>2 DEF Size
  <2>6. linear < c * i + (n - 1) * i + Ms
    BY <1>2, <1>5, <1>6, <2>1, <2>2, <2>3, <2>4, <2>5 DEF Ms
  <2>7. PICK b : b = c * i + (n - 1) * i
    OBVIOUS
  <2>8. b \in Nat /\ b % Ms = 0
    BY <1>5, <1>6, <2>7 DEF Ms
  <2> QED BY <1>2, <1>5, <2>6, <2>7, <2>8, EvenBounds
<1>9. l \in (c - 1) * i..c * i - 1
  BY <1>1, <1>2 DEF Size
<1>10. l \in Nat /\ linear - t <= l /\ l < linear
  BY <1>2, <1>3, <1>7, <1>8, <1>9, PacketIsHeld
<1> QED BY <1>1, <1>2, <1>10 DEF Filling, Holds

\* For every set of buffers and for all time, the packet a client would be handed is in
\* the buffer, whole and alone, unless the clock of the packets is late by all of the
\* other packets, the time included for which pauses were held up between the saving of
\* that clock and the new state: WriteBytes overwrites none before that.
THEOREM ReadPacketsAreIntact == Spec => []ReadableIsIntact
<1>1. Init => Filling /\ Abreast
  <2>1. Init => Abreast
    BY DEF Init, Abreast, NoBuffer
  <2> QED BY <2>1, InitFilling
<1>2. Inv /\ Filling /\ Abreast /\ [Next]_vars => (Filling /\ Abreast)'
  BY NextFills, NextStaysAbreast
<1>3. Inv /\ Filling /\ Abreast => ReadableIsIntact
  BY HeldPacketsAreIntact
<1> QED BY <1>1, <1>2, <1>3, Invariant, PTL DEF Spec

----------------------------------------------------------------------------
(* The capture stream: the position it tells, and the types.               *)

\* The position in the buffer is that of the bytes moved.
Placed ==
  IF buffer.ticks = 0 THEN dma.position = 0 /\ dma.linear = 0
  ELSE dma.position = dma.linear % buffer.ticks

\* No clock is ahead of time, and packets are counted by a buffer that has some.
Timely ==
  /\ now <= MaxTime
  /\ dma.linear + Reached <= now /\ Counted + PacketClock <= now
  /\ packet.count > 0 => buffer.interval > 0
  /\ lastRead \in ULONG_MAX..MaxTime /\ reading \in None..MaxTime
  /\ held \in Nat /\ held <= now

\* What is filled was moved.
Moved == mem = [s \in DOMAIN mem |-> mem[s]] /\ \A s \in DOMAIN mem : mem[s] \in Old..MaxTime

\* A number has one rest only.
LEMMA OneRest ==
  ASSUME NEW n \in Nat \ {0}, NEW p \in Int, NEW q \in Int, NEW r \in 0..n - 1,
         NEW t \in 0..n - 1, n * p + r = n * q + t
  PROVE  r = t
<1>1. ASSUME NEW i \in Int, NEW j \in Int, NEW a \in 0..n - 1, NEW b \in 0..n - 1, a >= b,
             n * i + a = n * j + b
      PROVE  a = b
  <2> DEFINE k == j - i
  <2>1. k \in Int /\ j = i + k
    OBVIOUS
  <2> HIDE DEF k
  <2>2. n * j = n * i + n * k /\ n * i \in Int /\ n * k \in Int
    <3>1. \A x, y \in Int : n * (x + y) = n * x + n * y /\ n * x \in Int
      OBVIOUS
    <3> QED BY <2>1, <3>1
  <2>3. a - b = n * k
    <3>1. PICK x, y, z : x = n * i /\ y = n * j /\ z = n * k
      OBVIOUS
    <3>2. y = x + z /\ x + a = y + b /\ x \in Int /\ z \in Int /\ a \in Int /\ b \in Int
      BY <1>1, <2>2, <3>1
    <3>3. a - b = z
      BY <3>2
    <3> QED BY <3>1, <3>3
  <2>4. n * k < n /\ n * k >= 0
    BY <1>1, <2>3
  <2> QED BY <2>1, <2>3, <2>4, NotInBetween
<1>2. CASE r >= t
  BY <1>1, <1>2
<1>3. CASE t >= r
  BY <1>1, <1>3
<1> QED BY <1>2, <1>3

\* A rest counts on like the number it is of.
LEMMA RestOfSum ==
  ASSUME NEW n \in Nat \ {0}, NEW a \in Nat, NEW b \in Nat
  PROVE  ((a % n) + b) % n = (a + b) % n
<1>1. PICK i, r : i = a \div n /\ r = a % n
  OBVIOUS
<1>2. i \in Nat /\ r \in 0..n - 1 /\ a = n * i + r
  BY <1>1, DivisionAndRest, Zenon
<1>3. PICK j, t : j = (r + b) \div n /\ t = (r + b) % n
  OBVIOUS
<1>4. r + b \in Nat /\ a + b \in Nat
  BY <1>2
<1>5. j \in Nat /\ t \in 0..n - 1 /\ r + b = n * j + t
  BY <1>3, <1>4, DivisionAndRest, Zenon
<1>6. PICK k, u : k = (a + b) \div n /\ u = (a + b) % n
  OBVIOUS
<1>7. k \in Nat /\ u \in 0..n - 1 /\ a + b = n * k + u
  BY <1>4, <1>6, DivisionAndRest, Zenon
<1>8. n * (i + j) = n * i + n * j /\ n * i \in Int /\ n * j \in Int /\ i + j \in Int
  <2>1. \A x, y \in Int : n * (x + y) = n * x + n * y /\ n * x \in Int
    OBVIOUS
  <2> QED BY <1>2, <1>5, <2>1
<1>9. n * (i + j) + t = n * k + u
  BY <1>2, <1>5, <1>7, <1>8
<1>10. t = u
  <2>1. PICK m : m = i + j
    OBVIOUS
  <2>2. m \in Int /\ k \in Int /\ n * m + t = n * k + u
    BY <1>7, <1>8, <1>9, <2>1
  <2> QED BY <1>5, <1>7, <2>2, OneRest, Zenon
<1> QED BY <1>1, <1>3, <1>6, <1>10

\* UpdatePosition moves the position by what it moves, round the buffer.
LEMMA UpdatePlaces ==
  ASSUME Inv, Placed, buffer.ticks > 0, UpdatePosition, UNCHANGED buffer
  PROVE  Placed'
<1>1. PICK n, from, moved : n = buffer.ticks /\ from = dma.linear /\ moved = Milliseconds(Elapsed)
  OBVIOUS
<1>2. n \in Nat \ {0} /\ from \in Nat
  BY <1>1 DEF Inv, Types
<1>3. moved \in Nat
  <2>1. Elapsed \in Nat
    BY DEF Inv, Types, Elapsed
  <2> QED BY <1>1, <2>1, MillisecondsAndRest, Zenon
<1>4. dma.position = from % n
  BY <1>1 DEF Placed
<1>5. dma'.linear = from + moved /\ dma'.position = ((from % n) + moved) % n
  BY <1>1, <1>4 DEF UpdatePosition, Advanced
<1>6. dma'.position = (from + moved) % n
  BY <1>2, <1>3, <1>5, RestOfSum
<1> QED BY <1>1, <1>2, <1>5, <1>6 DEF Placed

\* Every step keeps the position that of the bytes moved.
LEMMA NextPlaces ==
  ASSUME Inv, Filling, Placed, [Next]_vars
  PROVE  Placed'
<1>0. \A n \in Nat \ {0} : 0 % n = 0
  OBVIOUS
<1>1. CASE AllocateBuffer \/ FreeBuffer
  <2>1. state = "stop" /\ dma' = dma
    BY <1>1 DEF AllocateBuffer, FreeBuffer
  <2>2. dma.linear = 0
    BY <2>1 DEF Filling
  <2>3. dma.position = 0
    BY <1>0, <2>2 DEF Placed, Inv, Types
  <2>4. buffer'.ticks \in Nat
    BY <1>1, BufferStep DEF Inv, Types
  <2> QED BY <1>0, <2>1, <2>2, <2>3, <2>4 DEF Placed
<1>2. CASE Stop
  <2>1. buffer' = buffer /\ dma'.linear = 0 /\ dma'.position = 0
    BY <1>2 DEF Stop, Sets, Inv, Types
  <2> QED BY <1>0, <2>1 DEF Placed, Inv, Types
<1>3. CASE /\ UpdatePosition /\ buffer.ticks > 0 /\ UNCHANGED buffer
  BY <1>3, UpdatePlaces
<1>4. CASE buffer' = buffer /\ dma'.linear = dma.linear /\ dma'.position = dma.position
  BY <1>4 DEF Placed
<1>5. CASE GetPosition \/ PausePositions
  BY <1>3, <1>5 DEF GetPosition, PausePositions, Inv, Protocol
<1>6. CASE TimerNotifyRT
  BY <1>3, <1>4, <1>6 DEF TimerNotifyRT, Inv, Protocol, Ticking
<1>7. CASE RunStarts
  BY <1>4, <1>7 DEF RunStarts, Inv, Types
<1>8. CASE \/ ReadsCounter \/ ReturnsPacket \/ Expires \/ Time \/ PauseStarts \/ PauseFlushes
           \/ RunIsSet \/ PauseIsSet \/ Acquire \/ UNCHANGED vars
  BY <1>4, <1>8 DEF ReadsCounter, ReturnsPacket, Expires, Time, PauseStarts, PauseFlushes,
                    RunIsSet, PauseIsSet, Acquire, Sets, vars
<1> QED BY <1>1, <1>2, <1>5, <1>6, <1>7, <1>8 DEF Next, SetState

\* No clock gets ahead of time: what is moved or counted is taken from a clock.
LEMMA NextTimely ==
  ASSUME Inv, Filling, Timely, [Next]_vars
  PROVE  Timely'
<1>0. /\ buffer \in [ticks : Nat, count : Nat, interval : Nat] /\ now \in Nat /\ MaxTime \in Nat
      /\ dma \in [stamp : Nat, carry : Nat, linear : Nat, position : Nat]
      /\ packet \in [stamp : Nat, carry : Nat, count : Nat]
      /\ Counted \in Nat /\ SinceLastPacket \in Nat /\ Elapsed \in Nat
      /\ SinceLastPacket >= packet.carry /\ Elapsed >= dma.carry
      /\ PacketClock \in Nat /\ Reached \in Nat
      /\ PacketClock >= packet.carry /\ Reached >= dma.carry
  BY StreamAssumption DEF Inv, Types, Counted, SinceLastPacket, Elapsed, PacketClock, Reached
<1>1. Inv'
  BY BufferStep, PositionStep, ExpiryStep, DpcStep, TimeStep, AcquireStep, StopStep, RunStep,
     PauseStep, ReaderStep DEF Next, SetState
<1>2. packet.count <= MaxTime + 1 /\ packet.count - 1 \in -1..MaxTime
  <2>1. packet.count > 0 => packet.count <= Counted
    BY <1>0 DEF Timely, Counted
  <2> QED BY <1>0, <2>1 DEF Timely
<1>3. lastRead' \in ULONG_MAX..MaxTime /\ reading' \in None..MaxTime
  BY <1>0, <1>2 DEF Timely, ULONG_MAX, None, Next, SetState, AllocateBuffer, FreeBuffer, GetPosition, ReadsCounter, ReturnsPacket,
         Expires, TimerNotifyRT, Time, Acquire, Stop, Sets, RunStarts, RunIsSet, PauseStarts,
         PauseFlushes, PausePositions, PauseIsSet, port, vars
<1>4. now' <= MaxTime
  BY <1>0 DEF Timely, Next, SetState, AllocateBuffer, FreeBuffer, GetPosition, ReadsCounter, ReturnsPacket,
         Expires, TimerNotifyRT, Time, Acquire, Stop, Sets, RunStarts, RunIsSet, PauseStarts,
         PauseFlushes, PausePositions, PauseIsSet, vars
<1>14. held' \in Nat /\ held' <= now'
  BY <1>0 DEF Timely, Next, SetState, AllocateBuffer, FreeBuffer, GetPosition, ReadsCounter,
     ReturnsPacket, Expires, TimerNotifyRT, Time, Acquire, Stop, Sets, RunStarts, RunIsSet,
     PauseStarts, PauseFlushes, PausePositions, PauseIsSet, port, vars
<1> DEFINE Clocked == /\ dma'.linear + Reached' <= now' /\ Counted' + PacketClock' <= now'
                      /\ packet'.count > 0 => buffer'.interval > 0
<1>5. SUFFICES Clocked
  BY <1>3, <1>4, <1>14 DEF Timely
<1>6. CASE AllocateBuffer \/ FreeBuffer
  <2>1. /\ state = "stop" /\ setting = "idle" /\ packet.count = 0
        /\ UNCHANGED <<state, setting, dma, packet, now>>
    BY <1>6 DEF AllocateBuffer, FreeBuffer, Inv, Protocol
  <2>2. Counted' = 0 /\ Counted = 0
    BY <1>0, <1>1, <2>1 DEF Counted, Inv, Types
  <2>3. PacketClock' = PacketClock /\ Reached' = Reached
    BY <2>1 DEF PacketClock, Reached, Ticking, EndsPause, SinceLastPacket, Elapsed
  <2> QED BY <2>1, <2>2, <2>3 DEF Timely
<1>7. CASE Stop
  <2>1. /\ state = "acquire" /\ state' = "stop" /\ setting = "idle" /\ setting' = "idle"
        /\ packet'.count = 0 /\ packet'.carry = packet.carry /\ dma'.linear = 0
        /\ dma'.carry = dma.carry /\ now' = now
    BY <1>0, <1>7 DEF Stop, Sets
  <2>2. Counted' = 0
    BY <1>1, <2>1 DEF Counted, Inv, Types
  <2>3. PacketClock' = packet.carry /\ Reached' = dma.carry
    BY <2>1 DEF PacketClock, Reached, Ticking, EndsPause
  <2> QED BY <1>0, <2>1, <2>2, <2>3 DEF Timely
<1>8. CASE Time
  <2>1. /\ now' = now + 1 /\ UNCHANGED <<state, setting, buffer, dma, packet>>
    BY <1>8 DEF Time
  <2>2. SinceLastPacket' = SinceLastPacket + 1 /\ Elapsed' = Elapsed + 1
    BY <1>0, <2>1 DEF SinceLastPacket, Elapsed
  <2>3. PacketClock' <= PacketClock + 1 /\ Reached' <= Reached + 1
    BY <1>0, <2>1, <2>2 DEF PacketClock, Reached, Ticking, EndsPause
  <2>4. PacketClock' \in Nat /\ Reached' \in Nat
    BY <1>0, <2>1, <2>2 DEF PacketClock, Reached
  <2>5. Counted' = Counted /\ dma'.linear = dma.linear /\ packet'.count = packet.count
        /\ buffer'.interval = buffer.interval
    BY <2>1 DEF Counted
  <2>6. dma.linear \in Nat /\ now \in Nat /\ Counted \in Nat /\ PacketClock \in Nat
        /\ Reached \in Nat
    BY <1>0
  <2>7. now' = now + 1
    BY <2>1
  <2>8. dma'.linear + Reached' <= now'
    BY <2>3, <2>4, <2>5, <2>6, <2>7 DEF Timely
  <2>9. Counted' + PacketClock' <= now'
    <3>1. \A c, p, q, n \in Nat : c + p <= n /\ q <= p + 1 => c + q <= n + 1
      OBVIOUS
    <3>2. Counted + PacketClock' <= now + 1
      BY <2>3, <2>4, <2>6, <3>1, Zenon DEF Timely
    <3> QED BY <2>5, <2>7, <3>2, Zenon
  <2>10. packet'.count > 0 => buffer'.interval > 0
    BY <2>5 DEF Timely
  <2> QED BY <2>8, <2>9, <2>10
<1>9. CASE GetPosition \/ PausePositions
  <2>1. /\ state = "run" /\ state' = "run" /\ buffer.ticks > 0 /\ UpdatePosition
        /\ UNCHANGED <<buffer, packet, now>>
        /\ \/ setting' = setting
           \/ setting = "positions" /\ setting' = "pause"
    BY <1>9 DEF GetPosition, PausePositions, Inv, Protocol
  <2>2. dma'.stamp = now /\ dma'.linear + dma'.carry = dma.linear + Elapsed
        /\ dma'.carry \in Nat /\ dma'.linear \in Nat
    BY <2>1, UpdateIsExact
  <2>3. Reached = Elapsed
    BY <1>0, <2>1 DEF Reached, Ticking, EndsPause, Inv, Types
  <2>4. Reached' = dma'.carry
    BY <1>0, <2>1, <2>2 DEF Reached, Elapsed, EndsPause
  <2>5. PacketClock' = PacketClock /\ Counted' = Counted
    BY <2>1 DEF PacketClock, Counted, Ticking, SinceLastPacket
  <2> QED BY <1>0, <2>1, <2>2, <2>3, <2>4, <2>5 DEF Timely
<1>10. CASE TimerNotifyRT
  <2>1. /\ Ticking /\ Ticking' /\ buffer.interval > 0 /\ buffer.ticks > 0
        /\ UNCHANGED <<state, setting, buffer, now>>
    BY <1>10 DEF TimerNotifyRT, Inv, Protocol, Ticking
  <2>2. CASE UNCHANGED <<packet, dma>>
    BY <2>1, <2>2 DEF Timely, Counted, PacketClock, Reached, SinceLastPacket, Elapsed
  <2>3. CASE /\ packet' = [stamp |-> now, carry |-> SinceLastPacket - buffer.interval,
                           count |-> packet.count + 1]
             /\ UpdatePosition
    <3>1. dma'.stamp = now /\ dma'.linear + dma'.carry = dma.linear + Elapsed
          /\ dma'.carry \in Nat /\ dma'.linear \in Nat
      BY <2>1, <2>3, UpdateIsExact
    <3>2. Counted' = Counted + buffer.interval
      BY <1>0, <2>1, <2>3, OneMore DEF Counted
    <3>3. PacketClock' = SinceLastPacket - buffer.interval /\ Reached' = dma'.carry
      BY <1>0, <2>1, <2>3, <3>1 DEF PacketClock, Reached, SinceLastPacket, Elapsed
    <3>4. PacketClock = SinceLastPacket /\ Reached = Elapsed
      BY <2>1 DEF PacketClock, Reached
    <3> QED BY <1>0, <2>1, <3>1, <3>2, <3>3, <3>4 DEF Timely
  <2> QED BY <1>10, <2>2, <2>3 DEF TimerNotifyRT
<1>11. CASE RunStarts
  <2>1. /\ state = "pause" /\ setting = "idle" /\ setting' = "run" /\ UNCHANGED <<buffer, now>>
        /\ dma'.stamp = now /\ packet'.stamp = now
        /\ dma'.carry = dma.carry /\ packet'.carry = packet.carry
        /\ dma'.linear = dma.linear /\ packet'.count = packet.count
    BY <1>0, <1>11 DEF RunStarts
  <2>2. PacketClock' = packet.carry /\ Reached' = dma.carry /\ Counted' = Counted
    BY <1>0, <2>1 DEF PacketClock, Reached, Ticking, SinceLastPacket, Elapsed, Counted
  <2> QED BY <1>0, <2>1, <2>2 DEF Timely
<1>12. CASE PauseStarts \/ PauseFlushes
  <2>1. /\ state = "run" /\ state' = "run" /\ setting' \in {"flush", "positions"} /\ Ticking
        /\ UNCHANGED <<buffer, dma, now>> /\ packet'.count = packet.count
    BY <1>0, <1>12 DEF PauseStarts, PauseFlushes, Inv, Protocol, Ticking
  <2>2. Reached' = Reached /\ Counted' = Counted
    BY <2>1 DEF Reached, Ticking, EndsPause, Elapsed, Counted
  <2>3. PacketClock' <= PacketClock /\ PacketClock' \in Nat
    <3>1. CASE PauseStarts
      BY <1>0, <2>1, <3>1 DEF PauseStarts, PacketClock, SinceLastPacket
    <3>2. CASE PauseFlushes
      BY <1>0, <2>1, <3>2 DEF PauseFlushes, PacketClock, Ticking
    <3> QED BY <1>12, <3>1, <3>2
  <2>4. dma.linear \in Nat /\ now \in Nat /\ Counted \in Nat /\ PacketClock \in Nat
        /\ Reached \in Nat
    BY <1>0
  <2>5. \A c, p, q, n \in Nat : c + p <= n /\ q <= p => c + q <= n
    OBVIOUS
  <2>6. Counted + PacketClock' <= now
    BY <2>3, <2>4, <2>5, Zenon DEF Timely
  <2>7. Counted' + PacketClock' <= now'
    BY <2>1, <2>2, <2>6
  <2> QED BY <2>1, <2>2, <2>7 DEF Timely
<1>13. CASE ReadsCounter \/ ReturnsPacket \/ Expires \/ RunIsSet \/ Acquire \/ UNCHANGED vars
  <2>1. /\ UNCHANGED <<buffer, dma, packet, now>>
        /\ Ticking' = Ticking /\ EndsPause' = EndsPause
    BY <1>13 DEF ReadsCounter, ReturnsPacket, Expires, RunIsSet, Acquire, Sets, vars,
                 Inv, Protocol, Ticking, EndsPause
  <2> QED BY <2>1 DEF Timely, Counted, PacketClock, Reached, SinceLastPacket, Elapsed
<1>15. CASE PauseIsSet
  <2>1. /\ setting = "pause" /\ setting' = "idle" /\ state = "run" /\ state' = "pause"
        /\ UNCHANGED <<buffer, dma, packet, now>>
    BY <1>15 DEF PauseIsSet, Inv, Protocol
  <2>2. PacketClock' = PacketClock /\ Counted' = Counted
    BY <2>1 DEF PacketClock, Counted, Ticking
  <2>3. Reached' = dma.carry
    BY <2>1 DEF Reached, Ticking, EndsPause
  <2> QED BY <1>0, <2>1, <2>2, <2>3 DEF Timely
<1> QED BY <1>6, <1>7, <1>8, <1>9, <1>10, <1>11, <1>12, <1>13, <1>15 DEF Next, SetState

\* The bytes of a slot have a last one, at most a round before the end.
LEMMA LastOfSlot ==
  ASSUME NEW n \in Nat \ {0}, NEW from \in Nat, NEW to \in Nat, NEW s \in 0..n - 1,
         NEW fills, fills = {l \in from..to - 1 : l % n = s}, fills # {}
  PROVE  Max(fills) \in from..to - 1
<1>1. PICK k : k \in from..to - 1 /\ k % n = s
  OBVIOUS
<1>2. k \in Nat /\ k >= s /\ to - 1 \in Nat /\ to - 1 >= k
  <2>1. k \in Nat /\ to - 1 >= k /\ to - 1 \in Nat
    BY <1>1
  <2>2. PICK i : i \in Nat /\ k = n * i + s
    BY <1>1, <2>1, DivisionAndRest, Zenon
  <2>3. n * i \in Nat
    BY <2>2
  <2> QED BY <2>1, <2>2, <2>3
<1>3. PICK j, r : j = (to - 1 - s) \div n /\ r = (to - 1 - s) % n
  OBVIOUS
<1>4. j \in Nat /\ r \in 0..n - 1 /\ to - 1 - s = n * j + r /\ n * j \in Nat
  <2>1. to - 1 - s \in Nat
    BY <1>2
  <2>2. j \in Nat /\ r \in 0..n - 1 /\ to - 1 - s = n * j + r
    BY <1>3, <2>1, DivisionAndRest, Zenon
  <2> QED BY <2>2
<1>5. PICK m : m = n * j + s
  OBVIOUS
<1>6. m \in Nat /\ m = to - 1 - r /\ m <= to - 1
  BY <1>2, <1>4, <1>5
<1>7. m % n = s
  <2>1. PICK i, t : i = m \div n /\ t = m % n
    OBVIOUS
  <2>2. i \in Nat /\ t \in 0..n - 1 /\ m = n * i + t
    BY <1>6, <2>1, DivisionAndRest, Zenon
  <2>3. i \in Int /\ j \in Int /\ n * i + t = n * j + s
    BY <1>4, <1>5, <2>2
  <2>4. t = s
    BY <2>2, <2>3, OneRest, Zenon
  <2> QED BY <2>1, <2>4
<1>8. ASSUME NEW l \in fills PROVE l \in from..to - 1 /\ l <= m
  <2>1. l \in from..to - 1 /\ l \in Nat /\ l % n = m % n
    BY <1>7
  <2>2. CASE m <= l
    <3>1. l - m < n
      BY <1>4, <1>6, <2>1
    <3>2. l = m
      BY <1>6, <2>1, <2>2, <3>1, OneSlot, Zenon
    <3> QED BY <2>1, <3>2
  <2> QED BY <1>6, <2>1, <2>2
<1>9. m \in fills
  <2>1. k <= m
    BY <1>1, <1>8
  <2>2. m \in from..to - 1
    BY <1>1, <1>2, <1>6, <2>1
  <2> QED BY <1>7, <2>2
<1>10. \E x \in fills : \A l \in fills : x >= l
  BY <1>6, <1>8, <1>9
<1>11. Max(fills) \in fills
  BY <1>10 DEF Max
<1> QED BY <1>8, <1>11

\* What UpdatePosition writes are numbers of bytes it has moved.
LEMMA UpdateMoves ==
  ASSUME Inv, Filling, Moved, buffer.ticks > 0, UpdatePosition, dma'.linear <= MaxTime
  PROVE  Moved'
<1>1. PICK n, from, to : n = buffer.ticks /\ from = dma.linear /\ to = dma'.linear
  OBVIOUS
<1>2. n \in Nat \ {0} /\ from \in Nat /\ to \in Nat /\ to <= MaxTime /\ MaxTime \in Nat
  <2>1. dma'.linear \in Nat
    BY UpdateIsExact
  <2> QED BY <1>1, <2>1, StreamAssumption DEF Inv, Types
<1>3. mem' = [s \in DOMAIN mem |->
                LET fills == {l \in from..to - 1 : l % n = s}
                IN  IF fills = {} THEN mem[s] ELSE Max(fills)]
  BY <1>1 DEF UpdatePosition, Advanced, WriteBytes
<1>4. DOMAIN mem = 0..n - 1 /\ \A s \in 0..n - 1 : mem[s] \in Old..MaxTime
  BY <1>1 DEF Filling, Moved
<1>5. ASSUME NEW s \in 0..n - 1 PROVE mem'[s] \in Old..MaxTime
  <2>1. PICK fills : fills = {l \in from..to - 1 : l % n = s}
    OBVIOUS
  <2>2. mem'[s] = IF fills = {} THEN mem[s] ELSE Max(fills)
    BY <1>3, <1>4, <2>1
  <2>3. CASE fills = {}
    BY <1>4, <2>2, <2>3
  <2>4. CASE fills # {}
    <3>1. Max(fills) \in from..to - 1
      BY <1>2, <2>1, <2>4, LastOfSlot
    <3>2. from..to - 1 \subseteq Old..MaxTime
      BY <1>2 DEF Old
    <3> QED BY <2>2, <2>4, <3>1, <3>2
  <2> QED BY <2>3, <2>4
<1>6. DOMAIN mem' = 0..n - 1 /\ mem' = [s \in DOMAIN mem' |-> mem'[s]]
  BY <1>3, <1>4
<1> QED BY <1>5, <1>6 DEF Moved

\* Every step leaves in the buffer what was moved.
LEMMA NextMoves ==
  ASSUME Inv, Filling, Timely, Moved, [Next]_vars
  PROVE  Moved'
<1>1. dma'.linear <= MaxTime
  <2>1. Inv' /\ Timely'
    BY BufferStep, PositionStep, ExpiryStep, DpcStep, TimeStep, AcquireStep, StopStep, RunStep,
       PauseStep, ReaderStep, NextTimely DEF Next, SetState
  <2>2. dma'.linear \in Nat /\ Reached' \in Nat /\ now' \in Nat
    BY <2>1 DEF Inv, Types, Reached, Elapsed
  <2>3. dma'.linear + Reached' <= now' /\ now' <= MaxTime
    BY <2>1 DEF Timely
  <2> QED BY <2>2, <2>3, StreamAssumption
<1>2. CASE AllocateBuffer \/ FreeBuffer \/ Stop
  <2>1. PICK size : mem' = Filled(size)
    BY <1>2 DEF AllocateBuffer, FreeBuffer, Stop
  <2> QED BY <2>1, StreamAssumption DEF Filled, Moved, Old
<1>3. CASE UpdatePosition /\ buffer.ticks > 0
  BY <1>1, <1>3, UpdateMoves
<1>4. CASE GetPosition \/ PausePositions
  BY <1>3, <1>4 DEF GetPosition, PausePositions, Inv, Protocol
<1>5. CASE TimerNotifyRT
  BY <1>3, <1>5 DEF TimerNotifyRT, Inv, Protocol, Ticking, Moved
<1>6. CASE \/ ReadsCounter \/ ReturnsPacket \/ Expires \/ Time \/ PauseStarts \/ PauseFlushes
           \/ RunStarts \/ RunIsSet \/ PauseIsSet \/ Acquire \/ UNCHANGED vars
  BY <1>6 DEF ReadsCounter, ReturnsPacket, Expires, Time, PauseStarts, PauseFlushes, RunStarts,
              RunIsSet, PauseIsSet, Acquire, Sets, vars, Moved
<1> QED BY <1>2, <1>4, <1>5, <1>6 DEF Next, SetState

\* For every set of buffers every variable has its type: the position GetPosition tells is
\* that of all the bytes moved since the start, round the buffer, over any number of
\* updates, pauses and stops, and no byte is moved ahead of time.
THEOREM StreamTypeCorrect == Spec => []TypeOK
<1>1. Init => Filling /\ Placed /\ Timely /\ Moved
  <2>1. Init => Placed /\ Timely /\ Moved
    BY StreamAssumption
       DEF Init, NoBuffer, Placed, Timely, Moved, Filled, Old, Reached, PacketClock, Counted,
           ULONG_MAX, None, EndsPause, Ticking, SinceLastPacket, Elapsed
  <2> QED BY <2>1, InitFilling
<1>2. Inv /\ Filling /\ Placed /\ Timely /\ Moved /\ [Next]_vars
        => (Filling /\ Placed /\ Timely /\ Moved)'
  BY NextFills, NextPlaces, NextTimely, NextMoves
<1>3. Inv /\ Filling /\ Placed /\ Timely /\ Moved => TypeOK
  <2> SUFFICES ASSUME Inv, Filling, Placed, Timely, Moved PROVE TypeOK
    OBVIOUS
  <2>1. /\ dma \in [stamp : Nat, carry : Nat, linear : Nat, position : Nat] /\ now \in Nat
        /\ packet \in [stamp : Nat, carry : Nat, count : Nat] /\ MaxTime \in Nat
        /\ dma.stamp <= now /\ packet.stamp <= now /\ buffer.interval \in Nat
        /\ buffer.ticks \in Nat
    BY StreamAssumption DEF Inv, Types
  <2>2. /\ Reached \in Nat /\ PacketClock \in Nat /\ PacketClock >= packet.carry
        /\ Counted \in Nat
    BY <2>1 DEF Reached, PacketClock, Elapsed, SinceLastPacket, Counted
  <2>3. packet.count <= Counted
    <3>1. \A a \in Nat, b \in Nat \ {0} : a <= a * b
      OBVIOUS
    <3>2. CASE packet.count = 0
      BY <2>2, <3>2
    <3>3. CASE packet.count > 0
      <4>1. packet.count \in Nat /\ buffer.interval \in Nat \ {0}
        BY <2>1, <3>3 DEF Timely
      <4> QED BY <3>1, <4>1 DEF Counted
    <3> QED BY <2>1, <3>2, <3>3
  <2>4. dma.linear \in 0..MaxTime + Ms
    BY <2>1, <2>2 DEF Timely, Ms
  <2>5. packet.carry \in 0..MaxTime /\ packet.count \in 0..MaxTime
    <3>1. \A c, p, n, m \in Nat : c + p <= n /\ n <= m => c <= m /\ p <= m
      OBVIOUS
    <3>2. Counted <= MaxTime /\ PacketClock <= MaxTime
      BY <2>1, <2>2, <3>1, Zenon DEF Timely
    <3>3. \A k, c, m \in Nat : k <= c /\ c <= m => k \in 0..m
      OBVIOUS
    <3> QED BY <2>1, <2>2, <2>3, <3>2, <3>3
  <2>6. dma.position = IF dma.linear = 0 THEN 0 ELSE dma.linear % buffer.ticks
    <3>1. \A n \in Nat \ {0} : 0 % n = 0
      OBVIOUS
    <3> QED BY <2>1, <3>1 DEF Placed
  <2>7. mem \in [0..buffer.ticks - 1 -> Old..MaxTime]
    BY DEF Moved, Filling
  <2>8. dma.carry \in 0..Ms - 1
    BY <2>1 DEF Filling, Ms
  <2>9. /\ state \in {"stop", "acquire", "pause", "run"}
        /\ setting \in {"idle", "run", "flush", "positions", "pause"}
    BY DEF Inv, Types
  <2>10. /\ lastRead \in ULONG_MAX..MaxTime /\ reading \in None..MaxTime
         /\ held \in Nat /\ held <= now /\ now <= MaxTime
    BY DEF Timely
  <2>11. dma.stamp \in 0..now /\ packet.stamp \in 0..now /\ held \in 0..MaxTime
    BY <2>1, <2>10
  <2> QED BY <2>4, <2>5, <2>6, <2>7, <2>8, <2>9, <2>10, <2>11, Zenon DEF TypeOK
<1> QED BY <1>1, <1>2, <1>3, Invariant, PTL DEF Spec

----------------------------------------------------------------------------
(* The adapter's life: its invariant.                                      *)

\* One for a reference that is there, 0 for one that is not.
One(p) == IF p THEN 1 ELSE 0

Steps == {"idle", "init", "topology", "topology filter", "wave", "wave filter", "connect",
          "unwind", "exit"}
HeapType ==
  [adapter : [Adapters -> Nat], port : [Filters -> Nat], miniport : [Filters -> Nat],
   instances : Nat]

AdapterTypes ==
  /\ dev \in [Devices -> {"added", "starting", "started", "stopped", "lost", "failed",
                          "removed"}]
  /\ starts \in [Devices -> 0..MaxStarts] /\ common \in [Devices -> 0..MaxStarts]
  /\ start \in [Devices -> [step : Steps, ok : BOOLEAN, out : SUBSET Kinds]]
  /\ heap \in HeapType /\ cache \in [Adapters -> SUBSET Kinds]
  /\ registered \subseteq Filters /\ children \subseteq Filters
  /\ bridged \subseteq Adapters
  /\ powered \subseteq Adapters /\ leaving \subseteq Adapters
  /\ handle \in [Clients -> Filters \union {NoFilter}]
  /\ allocated \in [Adapters -> 0..MaxStreams] /\ refused \in {0, 1}

\* Who holds a reference: to a port besides its miniport, to a miniport, and to an
\* adapter besides its topology miniport.
Opened(f) == {c \in Clients : handle[c] = f}
Users(f) == Cardinality(Opened(f))
Cached(f) == f[2] \in cache[f[1]]
Out(f) == f[1] = Latest(f[1][1]) /\ f[2] \in start[f[1][1]].out
Starting(a) == dev[a[1]] = "starting" /\ a = Latest(a[1])

PortHolders ==
  [f \in Filters |-> One(f \in registered) + One(Cached(f)) + One(Out(f))
                     + Users(f)]
MiniportHolders ==
  [f \in Filters |-> One(f \in children) + One(Cached(f)) + One(Out(f))
                     + (IF f[2] = "wave" THEN Users(f) ELSE 0)]
AdapterHolders ==
  [a \in Adapters |-> (IF Starting(a) THEN 2 ELSE 0) + One(common[a[1]] = a[2])
                      + One(a \in powered)]

\* The heap h counts just these holders, and no more than one adapter is alive.
Topology(a) == <<a, "topology">>
Counts(h, ports, miniports, adapters) ==
  /\ \A f \in Filters : h.port[f] = ports[f] + One(h.miniport[f] > 0)
  /\ \A f \in Filters : h.miniport[f] = miniports[f]
  /\ \A a \in Adapters : h.adapter[a] = adapters[a] + One(h.miniport[Topology(a)] > 0)

Instances(h) ==
  \/ h.instances = refused /\ \A a \in Adapters : h.adapter[a] = 0
  \/ /\ h.instances = 1 /\ refused = 0
     /\ \E a \in Adapters : /\ h.adapter[a] > 0
                            /\ \A b \in Adapters \ {a} : h.adapter[b] = 0

Balanced(h, ports, miniports, adapters) ==
  /\ h \in HeapType /\ Counts(h, ports, miniports, adapters) /\ Instances(h)

\* Where a start is, and what it has made by then.
Before(k) == IF k = "topology" THEN {"init", "topology", "topology filter"}
             ELSE {"init", "topology", "topology filter", "wave", "wave filter"}
Untouched(f) ==
  f \notin registered /\ f \notin children /\ ~Cached(f) /\ Opened(f) = {}

StartOf(d) ==
  LET s == start[d] IN
  /\ s.step = "idle" <=> dev[d] # "starting"
  /\ s.step \in {"idle", "exit"} => s.out = {}
  /\ s.step # "idle" => starts[d] > 0 /\ common[d] = 0
  /\ s.step = "init" => Latest(d) \notin powered
  /\ s.step # "idle" =>
       \A k \in Kinds :
         /\ s.step \in Before(k) => Untouched(Filter(d, k)) /\ k \notin s.out
         /\ k \in s.out => Filter(d, k) \in registered

StartTells(d) ==
  LET s == start[d] IN
  /\ s.step \notin {"idle", "exit"} =>
       \A k \in Kinds : Filter(d, k) \in registered \/ k \in cache[Latest(d)] => k \in s.out
  /\ s.step \in Before("wave") \union {"connect"} => Latest(d) \notin bridged
  /\ s.step \in {"connect", "unwind"} /\ s.ok => "wave" \in s.out
  /\ s.step \in {"unwind", "exit"} /\ ~s.ok => Latest(d) \notin bridged
  /\ s.step = "exit" =>
       IF s.ok THEN Filter(d, "wave") \in registered
       ELSE \A k \in Kinds : Filter(d, k) \notin registered /\ k \notin cache[Latest(d)]
  /\ dev[d] = "failed" /\ common[d] # 0 =>
       /\ Latest(d) \notin bridged
       /\ \A k \in Kinds : Filter(d, k) \notin registered /\ k \notin cache[Latest(d)]
  /\ dev[d] = "started" => Filter(d, "wave") \in registered

\* The adapter a device has now: PortCls was told to let go of every other.
Owned(a) == a = Latest(a[1]) /\ (dev[a[1]] = "starting" \/ common[a[1]] # 0)

Owners ==
  /\ registered \subseteq children
  /\ \A d \in Devices :
       /\ common[d] # 0 => common[d] = starts[d] /\ dev[d] \in {"started", "failed"}
       /\ dev[d] = "started" => common[d] # 0
  /\ \A a \in Adapters :
       /\ Owned(a) => a \notin leaving
       /\ cache[a] # {} => Owned(a)
       /\ a \in powered \/ (\E k \in Kinds : <<a, k>> \in registered) =>
            Owned(a) \/ a \in leaving
       /\ a[2] > starts[a[1]] =>
            /\ a \notin powered /\ a \notin leaving /\ a \notin bridged /\ cache[a] = {}
            /\ \A k \in Kinds : Untouched(<<a, k>>)

Streams ==
  \A a \in Adapters : allocated[a] = Users(<<a, "wave">>)

LifeInv ==
  /\ AdapterTypes
  /\ Balanced(heap, PortHolders, MiniportHolders, AdapterHolders)
  /\ \A d \in Devices : StartOf(d) /\ StartTells(d)
  /\ Owners /\ Streams

----------------------------------------------------------------------------
(* Filters, and the fields of a heap.                                      *)

LEMMA FilterParts ==
  ASSUME NEW f \in Filters
  PROVE  /\ f[1] \in Adapters /\ f[2] \in Kinds /\ f = <<f[1], f[2]>>
         /\ f[1][1] \in Devices /\ f[1][2] \in 1..MaxStarts /\ f[1] = <<f[1][1], f[1][2]>>
  BY DEF Filters, Adapters

LEMMA AdapterParts ==
  ASSUME NEW a \in Adapters
  PROVE  /\ a[1] \in Devices /\ a[2] \in 1..MaxStarts /\ a = <<a[1], a[2]>>
         /\ Topology(a) \in Filters /\ Topology(a)[1] = a /\ Topology(a)[2] = "topology"
         /\ \A k \in Kinds : <<a, k>> \in Filters
  BY DEF Filters, Adapters, Kinds, Topology

LEMMA HeapPort ==
  ASSUME NEW h \in HeapType, NEW f \in Filters, NEW n \in Nat
  PROVE  LET g == [h EXCEPT !.port[f] = n] IN
         /\ g \in HeapType /\ g.port = [h.port EXCEPT ![f] = n]
         /\ g.miniport = h.miniport /\ g.adapter = h.adapter /\ g.instances = h.instances
  BY DEF HeapType

LEMMA HeapMiniport ==
  ASSUME NEW h \in HeapType, NEW f \in Filters, NEW n \in Nat
  PROVE  LET g == [h EXCEPT !.miniport[f] = n] IN
         /\ g \in HeapType /\ g.miniport = [h.miniport EXCEPT ![f] = n]
         /\ g.port = h.port /\ g.adapter = h.adapter /\ g.instances = h.instances
  BY DEF HeapType

----------------------------------------------------------------------------
(* What an operation on the heap does to its counts.                       *)

LEMMA AddPortCounts ==
  ASSUME NEW h \in HeapType, NEW f \in Filters
  PROVE  LET g == AddPort(h, f) IN
         /\ g \in HeapType /\ g.port = [h.port EXCEPT ![f] = h.port[f] + 1]
         /\ g.miniport = h.miniport /\ g.adapter = h.adapter /\ g.instances = h.instances
<1> DEFINE n == h.port[f] + 1
<1>1. n \in Nat
  BY DEF HeapType
<1>2. AddPort(h, f) = [h EXCEPT !.port[f] = n]
  BY DEF AddPort
<1> HIDE DEF n
<1>3. /\ AddPort(h, f) \in HeapType /\ AddPort(h, f).port = [h.port EXCEPT ![f] = n]
      /\ AddPort(h, f).miniport = h.miniport /\ AddPort(h, f).adapter = h.adapter
      /\ AddPort(h, f).instances = h.instances
  BY <1>1, <1>2, HeapPort
<1> QED BY <1>3 DEF n

LEMMA AddMiniportCounts ==
  ASSUME NEW h \in HeapType, NEW f \in Filters
  PROVE  LET g == AddMiniport(h, f) IN
         /\ g \in HeapType /\ g.miniport = [h.miniport EXCEPT ![f] = h.miniport[f] + 1]
         /\ g.port = h.port /\ g.adapter = h.adapter /\ g.instances = h.instances
<1> DEFINE n == h.miniport[f] + 1
<1>1. n \in Nat
  BY DEF HeapType
<1>2. AddMiniport(h, f) = [h EXCEPT !.miniport[f] = n]
  BY DEF AddMiniport
<1> HIDE DEF n
<1>3. /\ AddMiniport(h, f) \in HeapType
      /\ AddMiniport(h, f).miniport = [h.miniport EXCEPT ![f] = n]
      /\ AddMiniport(h, f).port = h.port /\ AddMiniport(h, f).adapter = h.adapter
      /\ AddMiniport(h, f).instances = h.instances
  BY <1>1, <1>2, HeapMiniport
<1> QED BY <1>3 DEF n

LEMMA AddAdapterCounts ==
  ASSUME NEW h \in HeapType, NEW a \in Adapters
  PROVE  LET g == AddAdapter(h, a) IN
         /\ g \in HeapType /\ g.adapter = [h.adapter EXCEPT ![a] = h.adapter[a] + 1]
         /\ g.port = h.port /\ g.miniport = h.miniport /\ g.instances = h.instances
<1> DEFINE counts == [h.adapter EXCEPT ![a] = h.adapter[a] + 1]
<1>1. counts \in [Adapters -> Nat]
  BY DEF HeapType
<1>2. AddAdapter(h, a) = [h EXCEPT !.adapter = counts]
  BY DEF AddAdapter
<1> HIDE DEF counts
<1>3. /\ AddAdapter(h, a) \in HeapType /\ AddAdapter(h, a).adapter = counts
      /\ AddAdapter(h, a).port = h.port /\ AddAdapter(h, a).miniport = h.miniport
      /\ AddAdapter(h, a).instances = h.instances
  BY <1>1, <1>2 DEF HeapType
<1> QED BY <1>3 DEF counts

LEMMA ReleaseAdapterCounts ==
  ASSUME NEW h \in HeapType, NEW a \in Adapters, h.adapter[a] > 0, h.instances > 0
  PROVE  LET g == ReleaseAdapter(h, a) IN
         /\ g \in HeapType /\ g.adapter = [h.adapter EXCEPT ![a] = h.adapter[a] - 1]
         /\ g.instances = h.instances - (IF h.adapter[a] = 1 THEN 1 ELSE 0)
         /\ g.port = h.port /\ g.miniport = h.miniport
<1> DEFINE counts == [h.adapter EXCEPT ![a] = h.adapter[a] - 1]
           rest   == h.instances - (IF h.adapter[a] = 1 THEN 1 ELSE 0)
<1>1. counts \in [Adapters -> Nat]
  <2> DEFINE n == h.adapter[a] - 1
  <2>1. n \in Nat /\ h.adapter \in [Adapters -> Nat]
    BY DEF HeapType
  <2> QED BY <2>1
<1>2. rest \in Nat
  BY DEF HeapType
<1>3. ReleaseAdapter(h, a) = [h EXCEPT !.adapter = counts, !.instances = rest]
  BY DEF ReleaseAdapter
<1> HIDE DEF counts, rest
<1>4. /\ ReleaseAdapter(h, a) \in HeapType /\ ReleaseAdapter(h, a).adapter = counts
      /\ ReleaseAdapter(h, a).instances = rest
      /\ ReleaseAdapter(h, a).port = h.port /\ ReleaseAdapter(h, a).miniport = h.miniport
  BY <1>1, <1>2, <1>3 DEF HeapType
<1> QED BY <1>4 DEF counts, rest

LEMMA ReleaseAdapterInstances ==
  ASSUME NEW h \in HeapType, NEW a \in Adapters, h.adapter[a] > 0, Instances(h)
  PROVE  /\ h.instances > 0 /\ Instances(ReleaseAdapter(h, a))
         /\ ReleaseAdapter(h, a) \in HeapType
         /\ ReleaseAdapter(h, a).adapter = [h.adapter EXCEPT ![a] = h.adapter[a] - 1]
         /\ ReleaseAdapter(h, a).port = h.port /\ ReleaseAdapter(h, a).miniport = h.miniport
<1>1. h.adapter \in [Adapters -> Nat]
  BY DEF HeapType
<1>2. /\ h.instances = 1 /\ refused = 0
      /\ \A b \in Adapters \ {a} : h.adapter[b] = 0
  BY <1>1 DEF Instances
<1> DEFINE g == ReleaseAdapter(h, a)
<1>3. /\ g \in HeapType /\ g.adapter = [h.adapter EXCEPT ![a] = h.adapter[a] - 1]
      /\ g.instances = h.instances - (IF h.adapter[a] = 1 THEN 1 ELSE 0)
      /\ g.port = h.port /\ g.miniport = h.miniport
  BY <1>2, ReleaseAdapterCounts
<1> HIDE DEF g
<1>4. /\ g.adapter[a] = h.adapter[a] - 1
      /\ \A b \in Adapters \ {a} : g.adapter[b] = 0
  BY <1>1, <1>2, <1>3
<1>5. Instances(g)
  <2>1. CASE h.adapter[a] = 1
    <3>1. g.instances = 0
      BY <1>2, <1>3, <2>1
    <3>2. \A b \in Adapters : g.adapter[b] = 0
      BY <1>4, <2>1
    <3> QED BY <1>2, <3>1, <3>2 DEF Instances
  <2>2. CASE h.adapter[a] # 1
    <3>1. g.instances = 1
      BY <1>2, <1>3, <2>2
    <3>2. g.adapter[a] > 0
      BY <1>1, <1>4, <2>2
    <3> QED BY <1>2, <1>4, <3>1, <3>2 DEF Instances
  <2> QED BY <2>1, <2>2
<1> QED BY <1>2, <1>3, <1>5 DEF g

LEMMA ReleasePortCounts ==
  ASSUME NEW h \in HeapType, NEW f \in Filters, h.port[f] > 0
  PROVE  LET g == ReleasePort(h, f) IN
         /\ g \in HeapType /\ g.port = [h.port EXCEPT ![f] = h.port[f] - 1]
         /\ g.miniport = h.miniport /\ g.adapter = h.adapter /\ g.instances = h.instances
<1> DEFINE n == h.port[f] - 1
<1>1. n \in Nat
  BY DEF HeapType
<1>2. ReleasePort(h, f) = [h EXCEPT !.port[f] = n]
  BY DEF ReleasePort
<1> HIDE DEF n
<1>3. /\ ReleasePort(h, f) \in HeapType /\ ReleasePort(h, f).port = [h.port EXCEPT ![f] = n]
      /\ ReleasePort(h, f).miniport = h.miniport /\ ReleasePort(h, f).adapter = h.adapter
      /\ ReleasePort(h, f).instances = h.instances
  BY <1>1, <1>2, HeapPort
<1> QED BY <1>3 DEF n

LEMMA ReleaseMiniportCounts ==
  ASSUME NEW h \in HeapType, NEW f \in Filters, h.miniport[f] > 0, Instances(h),
         h.port[f] > 0, f[2] = "topology" => h.adapter[f[1]] > 0
  PROVE  LET g == ReleaseMiniport(h, f) IN
         /\ g \in HeapType /\ Instances(g)
         /\ g.miniport = [h.miniport EXCEPT ![f] = h.miniport[f] - 1]
         /\ g.port = IF h.miniport[f] = 1 THEN [h.port EXCEPT ![f] = h.port[f] - 1]
                     ELSE h.port
         /\ g.adapter = IF f[2] = "topology" /\ h.miniport[f] = 1
                        THEN [h.adapter EXCEPT ![f[1]] = h.adapter[f[1]] - 1]
                        ELSE h.adapter
<1> DEFINE n == h.miniport[f] - 1
           r == [h EXCEPT !.miniport[f] = n]
           t == IF f[2] = "topology" THEN ReleaseAdapter(r, f[1]) ELSE r
<1>1. n \in Nat /\ h.miniport \in [Filters -> Nat]
  BY DEF HeapType
<1>2. ReleaseMiniport(h, f) = IF r.miniport[f] = 0 THEN ReleasePort(t, f) ELSE r
  BY DEF ReleaseMiniport, DestroyMiniport
<1> HIDE DEF n, t
<1>3. /\ r \in HeapType /\ r.miniport = [h.miniport EXCEPT ![f] = n]
      /\ r.port = h.port /\ r.adapter = h.adapter /\ r.instances = h.instances
  BY <1>1, HeapMiniport
<1> HIDE DEF r
<1>4. Instances(r)
  BY <1>3 DEF Instances
<1>5. r.miniport[f] = n
  BY <1>1, <1>3
<1>6. n = 0 <=> h.miniport[f] = 1
  BY <1>1 DEF n
<1>7. CASE n = 0
  <2>1. /\ t \in HeapType /\ Instances(t) /\ t.port = h.port /\ t.miniport = r.miniport
        /\ t.adapter = IF f[2] = "topology"
                       THEN [h.adapter EXCEPT ![f[1]] = h.adapter[f[1]] - 1]
                       ELSE h.adapter
    <3>1. CASE f[2] = "topology"
      <4>1. f[1] \in Adapters /\ r.adapter[f[1]] > 0
        BY <1>3, <3>1, FilterParts
      <4>2. t = ReleaseAdapter(r, f[1])
        BY <3>1 DEF t
      <4>3. /\ t \in HeapType /\ Instances(t) /\ t.port = r.port
            /\ t.miniport = r.miniport
            /\ t.adapter = [r.adapter EXCEPT ![f[1]] = r.adapter[f[1]] - 1]
        BY <1>3, <1>4, <4>1, <4>2, ReleaseAdapterInstances
      <4> QED BY <1>3, <3>1, <4>3
    <3>2. CASE f[2] # "topology"
      <4>1. t = r
        BY <3>2 DEF t
      <4> QED BY <1>3, <1>4, <3>2, <4>1
    <3> QED BY <3>1, <3>2
  <2> DEFINE g == ReleasePort(t, f)
  <2>2. /\ g \in HeapType /\ g.port = [t.port EXCEPT ![f] = t.port[f] - 1]
        /\ g.miniport = t.miniport /\ g.adapter = t.adapter /\ g.instances = t.instances
    BY <2>1, ReleasePortCounts
  <2>3. ReleaseMiniport(h, f) = g
    BY <1>2, <1>5, <1>7
  <2> HIDE DEF g
  <2>4. Instances(g)
    BY <2>1, <2>2 DEF Instances
  <2>5. /\ g.port = [h.port EXCEPT ![f] = h.port[f] - 1] /\ g.miniport = r.miniport
        /\ g.adapter = IF f[2] = "topology"
                       THEN [h.adapter EXCEPT ![f[1]] = h.adapter[f[1]] - 1]
                       ELSE h.adapter
    BY <2>1, <2>2
  <2>6. g.miniport = [h.miniport EXCEPT ![f] = h.miniport[f] - 1]
    BY <1>3, <2>5 DEF n
  <2>7. h.miniport[f] = 1
    BY <1>6, <1>7
  <2> QED BY <2>2, <2>3, <2>4, <2>5, <2>6, <2>7
<1>8. CASE n # 0
  <2>1. ReleaseMiniport(h, f) = r
    BY <1>2, <1>5, <1>8
  <2> QED BY <1>3, <1>4, <1>6, <1>8, <2>1 DEF n
<1> QED BY <1>7, <1>8

----------------------------------------------------------------------------
(* And what it does to the holders, when it may be called.                 *)

HolderTypes(ports, miniports, adapters) ==
  /\ ports \in [Filters -> Nat] /\ miniports \in [Filters -> Nat]
  /\ adapters \in [Adapters -> Nat]

LEMMA AddPortBalanced ==
  ASSUME NEW h, NEW p, NEW m, NEW a, HolderTypes(p, m, a), Balanced(h, p, m, a),
         NEW f \in Filters
  PROVE  LET q == [p EXCEPT ![f] = p[f] + 1] IN
         HolderTypes(q, m, a) /\ Balanced(AddPort(h, f), q, m, a)
<1> DEFINE q == [p EXCEPT ![f] = p[f] + 1]
           g == AddPort(h, f)
<1>1. /\ g \in HeapType /\ g.port = [h.port EXCEPT ![f] = h.port[f] + 1]
      /\ g.miniport = h.miniport /\ g.adapter = h.adapter /\ g.instances = h.instances
  BY AddPortCounts DEF Balanced
<1>2. q \in [Filters -> Nat] /\ h.port \in [Filters -> Nat]
  BY DEF HolderTypes, Balanced, HeapType
<1>3. q[f] = p[f] + 1 /\ \A e \in Filters : e # f => q[e] = p[e]
  BY DEF HolderTypes
<1> HIDE DEF q, g
<1>4. Instances(g)
  BY <1>1 DEF Instances, Balanced
<1>5. \A e \in Filters : g.port[e] = q[e] + One(g.miniport[e] > 0)
  <2> TAKE e \in Filters
  <2> DEFINE one == One(h.miniport[e] > 0)
  <2>1. h.port[e] = p[e] + one /\ p[e] \in Nat /\ one \in Nat
    BY DEF Balanced, Counts, HolderTypes, One
  <2>2. one = One(g.miniport[e] > 0)
    BY <1>1
  <2> HIDE DEF one
  <2> QED BY <1>1, <1>2, <1>3, <2>1, <2>2
<1>6. Counts(g, q, m, a)
  BY <1>1, <1>5 DEF Balanced, Counts
<1>7. HolderTypes(q, m, a) /\ Balanced(g, q, m, a)
  BY <1>1, <1>2, <1>4, <1>6 DEF HolderTypes, Balanced
<1> QED BY <1>7 DEF q, g

LEMMA AddMiniportBalanced ==
  ASSUME NEW h, NEW p, NEW m, NEW a, HolderTypes(p, m, a), Balanced(h, p, m, a),
         NEW f \in Filters, m[f] > 0
  PROVE  LET q == [m EXCEPT ![f] = m[f] + 1] IN
         HolderTypes(p, q, a) /\ Balanced(AddMiniport(h, f), p, q, a)
<1> DEFINE q == [m EXCEPT ![f] = m[f] + 1]
           g == AddMiniport(h, f)
<1>1. /\ g \in HeapType /\ g.miniport = [h.miniport EXCEPT ![f] = h.miniport[f] + 1]
      /\ g.port = h.port /\ g.adapter = h.adapter /\ g.instances = h.instances
  BY AddMiniportCounts DEF Balanced
<1>2. q \in [Filters -> Nat] /\ h.miniport \in [Filters -> Nat]
  BY DEF HolderTypes, Balanced, HeapType
<1>3. q[f] = m[f] + 1 /\ \A e \in Filters : e # f => q[e] = m[e]
  BY DEF HolderTypes
<1> HIDE DEF q, g
<1>4. Instances(g)
  BY <1>1 DEF Instances, Balanced
<1>5. \A e \in Filters : g.miniport[e] = q[e]
  BY <1>1, <1>2, <1>3 DEF Balanced, Counts
<1>6. h.miniport[f] > 0
  BY DEF Balanced, Counts
<1>7. \A e \in Filters : One(g.miniport[e] > 0) = One(h.miniport[e] > 0)
  BY <1>1, <1>2, <1>6 DEF One
<1>8. Counts(g, p, q, a)
  BY <1>1, <1>5, <1>7, AdapterParts DEF Balanced, Counts
<1>9. HolderTypes(p, q, a) /\ Balanced(g, p, q, a)
  BY <1>1, <1>2, <1>4, <1>8 DEF HolderTypes, Balanced
<1> QED BY <1>9 DEF q, g

LEMMA AddAdapterBalanced ==
  ASSUME NEW h, NEW p, NEW m, NEW a, HolderTypes(p, m, a), Balanced(h, p, m, a),
         NEW x \in Adapters, a[x] > 0
  PROVE  LET q == [a EXCEPT ![x] = a[x] + 1] IN
         HolderTypes(p, m, q) /\ Balanced(AddAdapter(h, x), p, m, q)
<1> DEFINE q == [a EXCEPT ![x] = a[x] + 1]
           g == AddAdapter(h, x)
<1>1. /\ g \in HeapType /\ g.adapter = [h.adapter EXCEPT ![x] = h.adapter[x] + 1]
      /\ g.port = h.port /\ g.miniport = h.miniport /\ g.instances = h.instances
  BY AddAdapterCounts DEF Balanced
<1>2. q \in [Adapters -> Nat] /\ h.adapter \in [Adapters -> Nat]
  BY DEF HolderTypes, Balanced, HeapType
<1>3. q[x] = a[x] + 1 /\ \A b \in Adapters : b # x => q[b] = a[b]
  BY DEF HolderTypes
<1>4. a[x] \in Nat
  BY DEF HolderTypes
<1> HIDE DEF q, g
<1>5. \A b \in Adapters : g.adapter[b] = q[b] + One(g.miniport[Topology(b)] > 0)
  <2> TAKE b \in Adapters
  <2> DEFINE one == One(h.miniport[Topology(b)] > 0)
  <2>1. h.adapter[b] = a[b] + one /\ a[b] \in Nat /\ one \in Nat
    BY DEF Balanced, Counts, HolderTypes, One
  <2>2. one = One(g.miniport[Topology(b)] > 0)
    BY <1>1
  <2> HIDE DEF one
  <2> QED BY <1>1, <1>2, <1>3, <2>1, <2>2
<1>6. h.adapter[x] > 0
  BY <1>4 DEF Balanced, Counts, One
<1>7. /\ g.adapter[x] > 0
      /\ \A b \in Adapters : b # x => g.adapter[b] = h.adapter[b]
  BY <1>1, <1>2, <1>6
<1>8. Instances(g)
  BY <1>1, <1>6, <1>7 DEF Instances, Balanced
<1>9. HolderTypes(p, m, q) /\ Balanced(g, p, m, q)
  BY <1>1, <1>2, <1>5, <1>8 DEF HolderTypes, Balanced, Counts
<1> QED BY <1>9 DEF q, g

LEMMA ReleaseAdapterBalanced ==
  ASSUME NEW h, NEW p, NEW m, NEW a, HolderTypes(p, m, a), Balanced(h, p, m, a),
         NEW x \in Adapters, a[x] > 0
  PROVE  LET q == [a EXCEPT ![x] = a[x] - 1] IN
         HolderTypes(p, m, q) /\ Balanced(ReleaseAdapter(h, x), p, m, q)
<1> DEFINE q == [a EXCEPT ![x] = a[x] - 1]
           g == ReleaseAdapter(h, x)
<1>1. a[x] \in Nat /\ a \in [Adapters -> Nat] /\ h.adapter \in [Adapters -> Nat]
  BY DEF HolderTypes, Balanced, HeapType
<1>2. h.adapter[x] > 0
  BY <1>1 DEF Balanced, Counts, One
<1>3. /\ g \in HeapType /\ g.adapter = [h.adapter EXCEPT ![x] = h.adapter[x] - 1]
      /\ g.port = h.port /\ g.miniport = h.miniport /\ Instances(g)
  BY <1>2, ReleaseAdapterInstances DEF Balanced
<1>4. q \in [Adapters -> Nat]
  <2> DEFINE n == a[x] - 1
  <2>1. n \in Nat
    BY <1>1
  <2> QED BY <1>1, <2>1
<1>5. q[x] = a[x] - 1 /\ \A b \in Adapters : b # x => q[b] = a[b]
  BY <1>1
<1> HIDE DEF q, g
<1>6. \A b \in Adapters : g.adapter[b] = q[b] + One(g.miniport[Topology(b)] > 0)
  <2> TAKE b \in Adapters
  <2> DEFINE one == One(h.miniport[Topology(b)] > 0)
  <2>1. h.adapter[b] = a[b] + one /\ a[b] \in Nat /\ one \in Nat
    BY DEF Balanced, Counts, HolderTypes, One
  <2>2. one = One(g.miniport[Topology(b)] > 0)
    BY <1>3
  <2> HIDE DEF one
  <2> QED BY <1>1, <1>3, <1>5, <2>1, <2>2
<1>7. HolderTypes(p, m, q) /\ Balanced(g, p, m, q)
  BY <1>3, <1>4, <1>6 DEF HolderTypes, Balanced, Counts
<1> QED BY <1>7 DEF q, g

\* A miniport that goes takes its references to its port and its adapter along; the
\* adapter is alive.
LEMMA ReleaseMiniportBalanced ==
  ASSUME NEW h, NEW p, NEW m, NEW a, HolderTypes(p, m, a), Balanced(h, p, m, a),
         NEW f \in Filters, m[f] > 0
  PROVE  LET q == [m EXCEPT ![f] = m[f] - 1] IN
         HolderTypes(p, q, a) /\ Balanced(ReleaseMiniport(h, f), p, q, a)
<1> DEFINE q == [m EXCEPT ![f] = m[f] - 1]
           g == ReleaseMiniport(h, f)
           t == f[2] = "topology" /\ h.miniport[f] = 1
<1>1. /\ m[f] \in Nat /\ m \in [Filters -> Nat] /\ h.miniport \in [Filters -> Nat]
      /\ h.adapter \in [Adapters -> Nat] /\ h.port \in [Filters -> Nat] /\ p[f] \in Nat
  BY DEF HolderTypes, Balanced, HeapType
<1>2. h.miniport[f] = m[f] /\ h.port[f] = p[f] + 1
  BY <1>1 DEF Balanced, Counts, One
<1>3. f[2] = "topology" => f = Topology(f[1]) /\ f[1] \in Adapters /\ h.adapter[f[1]] > 0
  <2> SUFFICES ASSUME f[2] = "topology"
               PROVE  f = Topology(f[1]) /\ f[1] \in Adapters /\ h.adapter[f[1]] > 0
    OBVIOUS
  <2>1. f = Topology(f[1]) /\ f[1] \in Adapters
    BY FilterParts DEF Topology
  <2>2. h.adapter[f[1]] = a[f[1]] + One(h.miniport[f] > 0) /\ a[f[1]] \in Nat
    BY <2>1 DEF Balanced, Counts, HolderTypes
  <2> QED BY <1>2, <2>1, <2>2 DEF One
<1>4. /\ g \in HeapType /\ Instances(g)
      /\ g.port = IF h.miniport[f] = 1 THEN [h.port EXCEPT ![f] = h.port[f] - 1]
                  ELSE h.port
      /\ g.miniport = [h.miniport EXCEPT ![f] = h.miniport[f] - 1]
      /\ g.adapter = IF t THEN [h.adapter EXCEPT ![f[1]] = h.adapter[f[1]] - 1]
                     ELSE h.adapter
  <2>1. h.port[f] > 0
    BY <1>1, <1>2
  <2> QED BY <1>2, <1>3, <2>1, ReleaseMiniportCounts DEF Balanced
<1>5. q \in [Filters -> Nat]
  <2> DEFINE n == m[f] - 1
  <2>1. n \in Nat
    BY <1>1
  <2> QED BY <1>1, <2>1
<1>6. q[f] = m[f] - 1 /\ \A e \in Filters : e # f => q[e] = m[e]
  BY <1>1
<1> HIDE DEF q, g
<1>7. \A e \in Filters : g.miniport[e] = q[e]
  BY <1>1, <1>4, <1>6 DEF Balanced, Counts
<1>8. /\ g.miniport[f] > 0 <=> h.miniport[f] # 1
      /\ \A e \in Filters : e # f => g.miniport[e] = h.miniport[e]
  BY <1>1, <1>2, <1>4
<1>9. \A e \in Filters : g.port[e] = p[e] + One(g.miniport[e] > 0)
  <2> TAKE e \in Filters
  <2>1. CASE e # f
    <3>1. g.port[e] = h.port[e]
      BY <1>1, <1>4, <2>1
    <3> QED BY <1>8, <2>1, <3>1 DEF Balanced, Counts
  <2>2. CASE e = f
    <3>1. g.port[f] = IF h.miniport[f] = 1 THEN h.port[f] - 1 ELSE h.port[f]
      BY <1>1, <1>4
    <3>2. g.port[f] = p[f] + One(g.miniport[f] > 0)
      BY <1>1, <1>2, <1>8, <3>1 DEF One
    <3> QED BY <2>2, <3>2
  <2> QED BY <2>1, <2>2
<1>10. \A b \in Adapters : g.adapter[b] = a[b] + One(g.miniport[Topology(b)] > 0)
  <2> TAKE b \in Adapters
  <2> DEFINE e == Topology(b)
  <2>1. /\ h.adapter[b] = a[b] + One(h.miniport[e] > 0) /\ a[b] \in Nat
        /\ e \in Filters /\ e[1] = b /\ e[2] = "topology"
    BY AdapterParts DEF Balanced, Counts, HolderTypes
  <2> HIDE DEF e
  <2>2. CASE e # f
    <3>1. f[1] # b \/ f[2] # "topology"
      BY <1>3, <2>2 DEF e
    <3>2. g.adapter[b] = h.adapter[b]
      BY <1>1, <1>3, <1>4, <3>1
    <3> QED BY <1>8, <2>1, <2>2, <3>2 DEF e
  <2>3. CASE e = f
    <3>1. t <=> ~(g.miniport[f] > 0)
      BY <1>8, <2>1, <2>3
    <3>2. g.adapter[b] = IF t THEN h.adapter[b] - 1 ELSE h.adapter[b]
      BY <1>1, <1>4, <2>1, <2>3
    <3>3. h.adapter[b] = a[b] + 1
      BY <1>2, <2>1, <2>3 DEF One
    <3>4. g.adapter[b] = a[b] + One(g.miniport[f] > 0)
      BY <2>1, <3>1, <3>2, <3>3 DEF One
    <3> QED BY <2>3, <3>4 DEF e
  <2> QED BY <2>2, <2>3
<1>11. HolderTypes(p, q, a) /\ Balanced(g, p, q, a)
  BY <1>4, <1>5, <1>7, <1>9, <1>10 DEF HolderTypes, Balanced, Counts
<1> QED BY <1>11 DEF q, g

LEMMA ReleasePortBalanced ==
  ASSUME NEW h, NEW p, NEW m, NEW a, HolderTypes(p, m, a), Balanced(h, p, m, a),
         NEW f \in Filters, p[f] > 0
  PROVE  LET q == [p EXCEPT ![f] = p[f] - 1] IN
         HolderTypes(q, m, a) /\ Balanced(ReleasePort(h, f), q, m, a)
<1> DEFINE q == [p EXCEPT ![f] = p[f] - 1]
           g == ReleasePort(h, f)
<1>1. /\ p[f] \in Nat /\ p \in [Filters -> Nat] /\ h.port \in [Filters -> Nat]
      /\ h.port[f] > 0
  BY DEF HolderTypes, Balanced, HeapType, Counts, One
<1>2. q \in [Filters -> Nat]
  <2> DEFINE n == p[f] - 1
  <2>1. n \in Nat
    BY <1>1
  <2> QED BY <1>1, <2>1
<1>3. q[f] = p[f] - 1 /\ \A e \in Filters : e # f => q[e] = p[e]
  BY <1>1
<1>4. /\ g \in HeapType /\ g.port = [h.port EXCEPT ![f] = h.port[f] - 1]
      /\ g.miniport = h.miniport /\ g.adapter = h.adapter /\ g.instances = h.instances
  BY <1>1, ReleasePortCounts DEF Balanced
<1> HIDE DEF q, g
<1>5. Instances(g)
  BY <1>4 DEF Instances, Balanced
<1>6. \A e \in Filters : g.port[e] = q[e] + One(g.miniport[e] > 0)
  <2> TAKE e \in Filters
  <2> DEFINE one == One(h.miniport[e] > 0)
  <2>1. h.port[e] = p[e] + one /\ p[e] \in Nat /\ one \in Nat
    BY DEF Balanced, Counts, HolderTypes, One
  <2>2. one = One(g.miniport[e] > 0)
    BY <1>4
  <2> HIDE DEF one
  <2> QED BY <1>1, <1>3, <1>4, <2>1, <2>2
<1>7. Counts(g, q, m, a)
  BY <1>4, <1>6 DEF Balanced, Counts
<1>8. HolderTypes(q, m, a) /\ Balanced(g, q, m, a)
  BY <1>2, <1>4, <1>5, <1>7 DEF HolderTypes, Balanced
<1> QED BY <1>8 DEF q, g

\* PcNewPort, MiniportCreate and Init: whoever made the filter holds its port and its
\* miniport, and the port holds the miniport.
LEMMA NewFilterBalanced ==
  ASSUME NEW h, NEW p, NEW m, NEW a, HolderTypes(p, m, a), Balanced(h, p, m, a),
         NEW f \in Filters, p[f] = 0, m[f] = 0, a[f[1]] > 0
  PROVE  LET q == [p EXCEPT ![f] = 1]
             s == [m EXCEPT ![f] = 2]
         IN  HolderTypes(q, s, a) /\ Balanced(NewFilter(h, f), q, s, a)
<1> DEFINE q == [p EXCEPT ![f] = 1]
           s == [m EXCEPT ![f] = 2]
           x == f[1]
           h1 == [h EXCEPT !.port[f] = 1]
           h2 == CreateMiniport(h1, f)
           h3 == AddMiniport(h2, f)
           h4 == IF f[2] = "topology" THEN AddAdapter(h3, x) ELSE h3
           g == NewFilter(h, f)
<1>1. /\ p \in [Filters -> Nat] /\ m \in [Filters -> Nat] /\ a \in [Adapters -> Nat]
      /\ h.port \in [Filters -> Nat] /\ h.miniport \in [Filters -> Nat]
      /\ h.adapter \in [Adapters -> Nat] /\ h.port[f] = 0 /\ h.miniport[f] = 0
      /\ x \in Adapters /\ h \in HeapType
  BY FilterParts DEF HolderTypes, Balanced, HeapType, Counts, One
<1>2. q \in [Filters -> Nat] /\ q[f] = 1 /\ \A e \in Filters : e # f => q[e] = p[e]
  BY <1>1
<1>3. s \in [Filters -> Nat] /\ s[f] = 2 /\ \A e \in Filters : e # f => s[e] = m[e]
  BY <1>1
<1>4. g = AddPort(h4, f)
  BY DEF NewFilter, InitMiniport
<1> HIDE DEF q, s, g
<1>5. /\ h1 \in HeapType /\ h1.port = [h.port EXCEPT ![f] = 1]
      /\ h1.miniport = h.miniport /\ h1.adapter = h.adapter /\ h1.instances = h.instances
  BY SMTT(30), <1>1, HeapPort
<1>6. h2 = [h1 EXCEPT !.miniport[f] = 1]
  BY DEF CreateMiniport
<1> HIDE DEF h1, h2
<1>7. /\ h2 \in HeapType /\ h2.miniport = [h1.miniport EXCEPT ![f] = 1]
      /\ h2.port = h1.port /\ h2.adapter = h1.adapter /\ h2.instances = h1.instances
  BY <1>5, <1>6, HeapMiniport
<1>8. /\ h3 \in HeapType /\ h3.miniport = [h2.miniport EXCEPT ![f] = h2.miniport[f] + 1]
      /\ h3.port = h2.port /\ h3.adapter = h2.adapter /\ h3.instances = h2.instances
  BY <1>7, AddMiniportCounts
<1> HIDE DEF h3
<1>9. /\ h3.port[f] = 1 /\ h3.miniport[f] = 2
      /\ \A e \in Filters : e # f => /\ h3.port[e] = h.port[e]
                                     /\ h3.miniport[e] = h.miniport[e]
      /\ h3.adapter = h.adapter /\ h3.instances = h.instances /\ h3 \in HeapType
  BY <1>1, <1>5, <1>7, <1>8
<1>10. h.adapter[x] = a[x] + One(h.miniport[Topology(x)] > 0) /\ a[x] \in Nat
  BY <1>1 DEF Balanced, Counts
<1>11. h.adapter[x] > 0
  BY <1>10 DEF One
<1>12. /\ h4 \in HeapType /\ h4.port = h3.port /\ h4.miniport = h3.miniport
       /\ h4.instances = h.instances
       /\ h4.adapter = IF f[2] = "topology" THEN [h.adapter EXCEPT ![x] = h.adapter[x] + 1]
                       ELSE h.adapter
  BY <1>1, <1>9, AddAdapterCounts
<1> HIDE DEF h4
<1>13. /\ g \in HeapType /\ g.port = [h3.port EXCEPT ![f] = h3.port[f] + 1]
       /\ g.miniport = h3.miniport /\ g.instances = h.instances
       /\ g.adapter = IF f[2] = "topology" THEN [h.adapter EXCEPT ![x] = h.adapter[x] + 1]
                      ELSE h.adapter
  BY <1>4, <1>12, AddPortCounts
<1> HIDE DEF x
<1>14. Instances(g)
  <2>1. /\ g.adapter[x] > 0
        /\ \A b \in Adapters : b # x => g.adapter[b] = h.adapter[b]
    BY <1>1, <1>11, <1>13
  <2> QED BY <1>1, <1>11, <1>13, <2>1 DEF Instances, Balanced
<1>15. \A e \in Filters : g.miniport[e] = s[e]
  BY <1>1, <1>3, <1>9, <1>13 DEF Balanced, Counts
<1>16. \A e \in Filters : g.port[e] = q[e] + One(g.miniport[e] > 0)
  <2> TAKE e \in Filters
  <2>1. h3.port \in [Filters -> Nat]
    BY <1>9 DEF HeapType
  <2>2. CASE e = f
    BY <1>2, <1>9, <1>13, <2>1, <2>2 DEF One
  <2>3. CASE e # f
    <3>1. g.port[e] = h.port[e] /\ g.miniport[e] = h.miniport[e]
      BY <1>9, <1>13, <2>1, <2>3
    <3> QED BY <1>2, <2>3, <3>1 DEF Balanced, Counts
  <2> QED BY <2>2, <2>3
<1>17. f[2] = "topology" => f = Topology(x)
  BY FilterParts DEF Topology, x
<1>18. \A b \in Adapters : g.adapter[b] = a[b] + One(g.miniport[Topology(b)] > 0)
  <2> TAKE b \in Adapters
  <2> DEFINE e == Topology(b)
  <2>1. /\ h.adapter[b] = a[b] + One(h.miniport[e] > 0) /\ a[b] \in Nat
        /\ e \in Filters /\ e[1] = b /\ e[2] = "topology"
    BY <1>1, AdapterParts DEF Balanced, Counts
  <2> HIDE DEF e
  <2>2. CASE e # f
    <3>1. x # b \/ f[2] # "topology"
      BY <1>17, <2>2 DEF e
    <3>2. g.adapter[b] = h.adapter[b]
      BY <1>1, <1>13, <3>1
    <3> QED BY <1>9, <1>13, <2>1, <2>2, <3>2 DEF e
  <2>3. CASE e = f
    <3>1. g.adapter[b] = h.adapter[b] + 1 /\ h.adapter[b] = a[b]
      BY <1>1, <1>13, <2>1, <2>3 DEF One, x
    <3>2. g.miniport[e] = 2
      BY <1>9, <1>13, <2>3
    <3> QED BY <2>1, <3>1, <3>2 DEF e, One
  <2> QED BY <2>2, <2>3
<1>19. HolderTypes(q, s, a) /\ Balanced(g, q, s, a)
  BY <1>1, <1>2, <1>3, <1>13, <1>14, <1>15, <1>16, <1>18 DEF HolderTypes, Balanced, Counts
<1> QED BY <1>19 DEF q, s, g

\* A cached filter, or one the caller holds: its port and its miniport.
LEMMA ReleaseBothBalanced ==
  ASSUME NEW h, NEW p, NEW m, NEW a, HolderTypes(p, m, a), Balanced(h, p, m, a),
         NEW f \in Filters, p[f] > 0, m[f] > 0
  PROVE  LET q == [p EXCEPT ![f] = p[f] - 1]
             s == [m EXCEPT ![f] = m[f] - 1]
         IN  /\ HolderTypes(q, s, a)
             /\ Balanced(ReleaseMiniport(ReleasePort(h, f), f), q, s, a)
             /\ Balanced(ReleasePort(ReleaseMiniport(h, f), f), q, s, a)
<1> DEFINE q == [p EXCEPT ![f] = p[f] - 1]
           s == [m EXCEPT ![f] = m[f] - 1]
           g == ReleasePort(h, f)
           k == ReleaseMiniport(h, f)
<1>1. HolderTypes(q, m, a) /\ Balanced(g, q, m, a)
  BY ReleasePortBalanced
<1>2. HolderTypes(p, s, a) /\ Balanced(k, p, s, a)
  BY ReleaseMiniportBalanced
<1> HIDE DEF q, s, g, k
<1>3. Balanced(ReleaseMiniport(g, f), q, s, a)
  BY <1>1, ReleaseMiniportBalanced DEF s
<1>4. Balanced(ReleasePort(k, f), q, s, a)
  BY <1>2, ReleasePortBalanced DEF q
<1>5. HolderTypes(q, s, a)
  BY <1>1, <1>2 DEF HolderTypes
<1> QED BY <1>3, <1>4, <1>5 DEF q, s, g, k

\* Of a subdevice that cannot be registered, the port holds the miniport.
LEMMA DiscardFilterBalanced ==
  ASSUME NEW h, NEW p, NEW m, NEW a, HolderTypes(p, m, a), Balanced(h, p, m, a),
         NEW f \in Filters, p[f] = 0, m[f] = 0, a[f[1]] > 0
  PROVE  LET s == [m EXCEPT ![f] = 1] IN
         HolderTypes(p, s, a) /\ Balanced(DiscardFilter(h, f), p, s, a)
<1> DEFINE q1 == [p EXCEPT ![f] = 1]
           q2 == [q1 EXCEPT ![f] = q1[f] - 1]
           s1 == [m EXCEPT ![f] = 2]
           s2 == [s1 EXCEPT ![f] = s1[f] - 1]
           g == NewFilter(h, f)
<1>1. p \in [Filters -> Nat] /\ m \in [Filters -> Nat]
  BY DEF HolderTypes
<1>2. q1[f] = 1 /\ s1[f] = 2
  BY <1>1
<1>3. p = q2 /\ s2 = [m EXCEPT ![f] = 1]
  <2>1. q1[f] - 1 = 0 /\ s1[f] - 1 = 1
    BY <1>2
  <2>2. p = [q1 EXCEPT ![f] = 0]
    BY <1>1
  <2>3. [m EXCEPT ![f] = 1] = [s1 EXCEPT ![f] = 1]
    BY <1>1
  <2> QED BY <2>1, <2>2, <2>3
<1>4. HolderTypes(q1, s1, a) /\ Balanced(g, q1, s1, a)
  BY NewFilterBalanced
<1>5. DiscardFilter(h, f) = ReleaseMiniport(ReleasePort(g, f), f)
  BY DEF DiscardFilter, ReleaseLocals
<1> HIDE DEF q1, s1, g
<1>6. /\ HolderTypes(q2, s2, a)
      /\ Balanced(ReleaseMiniport(ReleasePort(g, f), f), q2, s2, a)
  BY <1>2, <1>4, ReleaseBothBalanced
<1> HIDE DEF q2, s2
<1> QED BY <1>3, <1>5, <1>6

\* One that can is held by PortCls and by the caller as well.
LEMMA KeepFilterBalanced ==
  ASSUME NEW h, NEW p, NEW m, NEW a, HolderTypes(p, m, a), Balanced(h, p, m, a),
         NEW f \in Filters, p[f] = 0, m[f] = 0, a[f[1]] > 0
  PROVE  LET q == [p EXCEPT ![f] = 2]
             s == [m EXCEPT ![f] = 2]
         IN  HolderTypes(q, s, a) /\ Balanced(KeepFilter(h, f), q, s, a)
<1> DEFINE q1 == [p EXCEPT ![f] = 1]
           q2 == [q1 EXCEPT ![f] = q1[f] + 1]
           q3 == [q2 EXCEPT ![f] = q2[f] + 1]
           q4 == [q3 EXCEPT ![f] = q3[f] - 1]
           s1 == [m EXCEPT ![f] = 2]
           s2 == [s1 EXCEPT ![f] = s1[f] + 1]
           s3 == [s2 EXCEPT ![f] = s2[f] - 1]
           h1 == NewFilter(h, f)
           h2 == AddPort(h1, f)
           h3 == AddPort(h2, f)
           h4 == AddMiniport(h3, f)
           h5 == ReleasePort(h4, f)
<1>1. p \in [Filters -> Nat] /\ m \in [Filters -> Nat]
  BY DEF HolderTypes
<1>2. /\ q1[f] = 1 /\ q2[f] = 2 /\ q3[f] = 3 /\ q4 = [p EXCEPT ![f] = 2]
      /\ s1[f] = 2 /\ s2[f] = 3 /\ s3 = s1
  BY <1>1
<1>3. KeepFilter(h, f) = ReleaseMiniport(h5, f)
  BY DEF KeepFilter, ReleaseLocals
<1>4. HolderTypes(q1, s1, a) /\ Balanced(h1, q1, s1, a)
  BY NewFilterBalanced
<1> HIDE DEF h1, h2, h3, h4, h5, q1, q2, q3, q4, s1, s2, s3
<1>5. HolderTypes(q2, s1, a) /\ Balanced(h2, q2, s1, a)
  BY <1>4, AddPortBalanced DEF q2, h2
<1>6. HolderTypes(q3, s1, a) /\ Balanced(h3, q3, s1, a)
  BY <1>5, AddPortBalanced DEF q3, h3
<1>7. HolderTypes(q3, s2, a) /\ Balanced(h4, q3, s2, a)
  <2>1. s1[f] > 0
    BY <1>2
  <2> QED BY <1>6, <2>1, AddMiniportBalanced DEF s2, h4
<1>8. HolderTypes(q4, s2, a) /\ Balanced(h5, q4, s2, a)
  <2>1. q3[f] > 0
    BY <1>2
  <2> QED BY <1>7, <2>1, ReleasePortBalanced DEF q4, h5
<1>9. HolderTypes(q4, s3, a) /\ Balanced(ReleaseMiniport(h5, f), q4, s3, a)
  <2>1. s2[f] > 0
    BY <1>2
  <2> QED BY <1>8, <2>1, ReleaseMiniportBalanced DEF s3
<1> QED BY <1>2, <1>3, <1>9 DEF s1

LEMMA CacheSubdeviceBalanced ==
  ASSUME NEW h, NEW p, NEW m, NEW a, HolderTypes(p, m, a), Balanced(h, p, m, a),
         NEW f \in Filters, m[f] > 0
  PROVE  LET q == [p EXCEPT ![f] = p[f] + 1]
             s == [m EXCEPT ![f] = m[f] + 1]
         IN  HolderTypes(q, s, a) /\ Balanced(CacheSubdevice(h, f), q, s, a)
<1> DEFINE q == [p EXCEPT ![f] = p[f] + 1]
           s == [m EXCEPT ![f] = m[f] + 1]
           g == AddPort(h, f)
<1>1. HolderTypes(q, m, a) /\ Balanced(g, q, m, a)
  BY AddPortBalanced
<1> HIDE DEF q, s, g
<1>2. HolderTypes(q, s, a) /\ Balanced(AddMiniport(g, f), q, s, a)
  BY <1>1, AddMiniportBalanced DEF s
<1> QED BY <1>2 DEF CacheSubdevice, q, s, g

----------------------------------------------------------------------------
(* The holders, step by step.                                              *)

StartType == [step : Steps, ok : BOOLEAN, out : SUBSET Kinds]

LEMMA UsersType ==
  ASSUME NEW f PROVE IsFiniteSet(Opened(f)) /\ Users(f) \in Nat
<1>1. IsFiniteSet(Opened(f))
  BY AdapterAssumption, FS_Subset DEF Opened
<1> QED BY <1>1, FS_CardinalityType DEF Users

LEMMA UsersPositive ==
  ASSUME NEW c \in Clients PROVE Users(handle[c]) > 0
<1>1. c \in Opened(handle[c])
  BY DEF Opened
<1> QED BY <1>1, UsersType, FS_EmptySet DEF Users

LEMMA UsersNone ==
  ASSUME NEW f, Opened(f) = {} PROVE Users(f) = 0
  BY FS_EmptySet DEF Users

LEMMA HoldersType ==
  ASSUME AdapterTypes
  PROVE  HolderTypes(PortHolders, MiniportHolders, AdapterHolders)
<1>1. PortHolders \in [Filters -> Nat]
  BY UsersType DEF PortHolders, One
<1>2. MiniportHolders \in [Filters -> Nat]
  BY UsersType DEF MiniportHolders, One
<1>3. AdapterHolders \in [Adapters -> Nat]
  BY DEF AdapterHolders, One
<1> QED BY <1>1, <1>2, <1>3 DEF HolderTypes

LEMMA BalancedNext ==
  ASSUME NEW g, NEW p, NEW m, NEW a, HolderTypes(p, m, a), Balanced(g, p, m, a),
         heap' = g, refused' = refused,
         \A f \in Filters : PortHolders[f]' = p[f] /\ MiniportHolders[f]' = m[f],
         \A b \in Adapters : AdapterHolders[b]' = a[b]
  PROVE  Balanced(heap, PortHolders, MiniportHolders, AdapterHolders)'
<1>1. Instances(heap)'
  BY DEF Balanced, Instances
<1>2. Counts(heap, PortHolders, MiniportHolders, AdapterHolders)'
  BY AdapterParts DEF Balanced, Counts, One
<1> QED BY <1>1, <1>2 DEF Balanced

LEMMA LatestParts ==
  ASSUME AdapterTypes, NEW d \in Devices, starts[d] > 0
  PROVE  /\ Latest(d) \in Adapters /\ Latest(d)[1] = d /\ Latest(d)[2] = starts[d]
         /\ \A k \in Kinds : /\ Filter(d, k) \in Filters /\ Filter(d, k)[1] = Latest(d)
                             /\ Filter(d, k)[2] = k
         /\ \A f \in Filters : f[1] = Latest(d) => f = Filter(d, f[2])
         /\ \A a \in Adapters : a[1] = d /\ a[2] = starts[d] => a = Latest(d)
  BY DEF AdapterTypes, Latest, Filter, Filters, Adapters

\* Two devices have different adapters.
LEMMA LatestDiffer ==
  ASSUME NEW d, NEW e, d # e
  PROVE  /\ Latest(d) # Latest(e)
         /\ \A k, j : Filter(d, k) # Filter(e, j)
  BY DEF Latest, Filter

\* What a device keeps when a step leaves it and the adapter it owns alone.
LEMMA StartStands ==
  ASSUME LifeInv, NEW e \in Devices,
         start'[e] = start[e], dev'[e] = dev[e], common'[e] = common[e],
         starts'[e] = starts[e],
         Owned(Latest(e)) =>
           /\ cache'[Latest(e)] = cache[Latest(e)]
           /\ Latest(e) \in powered' => Latest(e) \in powered
           /\ Latest(e) \in bridged' => Latest(e) \in bridged
           /\ \A k \in Kinds :
                /\ Filter(e, k) \in registered' <=> Filter(e, k) \in registered
                /\ Untouched(Filter(e, k)) => Untouched(Filter(e, k))'
  PROVE  StartOf(e)' /\ StartTells(e)'
<1>1. StartOf(e) /\ StartTells(e)
  BY DEF LifeInv
<1>2. /\ Latest(e)' = Latest(e) /\ \A k : Filter(e, k)' = Filter(e, k)
      /\ \A k : Untouched(Filter(e, k))' <=> Untouched(Filter(e, k))'
  BY DEF Latest, Filter
<1>3. dev[e] = "starting" \/ common[e] # 0 => Owned(Latest(e))
  BY DEF Owned, Latest
<1>4. dev[e] = "started" => common[e] # 0
  BY DEF LifeInv, Owners
<1>5. start[e].step = "idle" <=> dev[e] # "starting"
  BY <1>1 DEF StartOf
<1>6. CASE start[e].step = "idle"
  <2>1. StartOf(e)'
    BY <1>1, <1>6 DEF StartOf
  <2>2. StartTells(e)'
    BY <1>1, <1>2, <1>3, <1>4, <1>6 DEF StartTells, Before, Kinds
  <2> QED BY <2>1, <2>2
<1>7. CASE start[e].step # "idle"
  <2>1. /\ cache'[Latest(e)] = cache[Latest(e)]
        /\ Latest(e) \in powered' => Latest(e) \in powered
        /\ Latest(e) \in bridged' => Latest(e) \in bridged
        /\ \A k \in Kinds :
                /\ Filter(e, k) \in registered' <=> Filter(e, k) \in registered
                /\ Untouched(Filter(e, k)) => Untouched(Filter(e, k))'
    BY <1>3, <1>5, <1>7
  <2>2. StartOf(e)'
    BY <1>1, <1>2, <2>1 DEF StartOf
  <2>3. StartTells(e)'
    BY <1>1, <1>2, <1>5, <1>7, <2>1 DEF StartTells, Before, Kinds
  <2> QED BY <2>2, <2>3
<1> QED BY <1>6, <1>7

\* A step of StartDevice touches its own adapter only.
StartTouches(d) ==
  /\ dev[d] = "starting" /\ d \in Devices
  /\ UNCHANGED <<dev, starts, common, leaving, handle, allocated, refused>>
  /\ \E r \in StartType : r.step # "idle" /\ start' = [start EXCEPT ![d] = r]
  /\ registered' \subseteq Filters /\ bridged' \subseteq Adapters
  /\ children \subseteq children' /\ children' \subseteq Filters
  /\ registered' \subseteq registered \union children'
  /\ powered' \subseteq Adapters /\ cache' \in [Adapters -> SUBSET Kinds]
  /\ \A f \in Filters : f[1] # Latest(d) => (f \in registered' <=> f \in registered)
  /\ \A f \in Filters : f[1] # Latest(d) => (f \in children' <=> f \in children)
  /\ \A a \in Adapters :
       a # Latest(d) => /\ cache'[a] = cache[a] /\ (a \in powered' <=> a \in powered)
                        /\ (a \in bridged' <=> a \in bridged)

LEMMA StartStep ==
  ASSUME LifeInv, NEW d \in Devices, StartTouches(d), heap' \in HeapType,
         StartOf(d)', StartTells(d)'
  PROVE  /\ AdapterTypes' /\ (\A e \in Devices : StartOf(e)' /\ StartTells(e)')
         /\ Owners' /\ Streams'
<1>1. AdapterTypes'
  <2>1. start' \in [Devices -> StartType]
    BY DEF StartTouches, LifeInv, AdapterTypes, StartType
  <2> QED BY <2>1 DEF StartTouches, LifeInv, AdapterTypes, StartType
<1>2. starts[d] > 0 /\ Latest(d) \in Adapters /\ Latest(d)[1] = d
  BY LatestParts DEF LifeInv, StartOf, StartTouches
<1>3. /\ \A e \in Devices : Latest(e)' = Latest(e) /\ \A k : Filter(e, k)' = Filter(e, k)
      /\ \A f : Opened(f)' = Opened(f)
  BY DEF StartTouches, Latest, Filter, Opened
<1>4. \A e \in Devices : StartOf(e)' /\ StartTells(e)'
  <2> SUFFICES ASSUME NEW e \in Devices, e # d PROVE StartOf(e)' /\ StartTells(e)'
    OBVIOUS
  <2>1. StartOf(e) /\ StartTells(e)
    BY DEF LifeInv
  <2>2. start'[e] = start[e] /\ dev'[e] = dev[e] /\ common'[e] = common[e]
        /\ starts'[e] = starts[e]
    BY DEF StartTouches, LifeInv, AdapterTypes
  <2>3. Owned(Latest(e)) => starts[e] > 0
    <3>1. Owned(Latest(e)) => dev[e] = "starting" \/ common[e] # 0
      BY DEF Owned, Latest
    <3>2. common[e] # 0 => common[e] = starts[e] /\ starts[e] \in Nat
      BY DEF LifeInv, Owners, AdapterTypes
    <3> QED BY <2>1, <3>1, <3>2 DEF StartOf
  <2>4. Owned(Latest(e)) =>
          /\ cache'[Latest(e)] = cache[Latest(e)]
          /\ Latest(e) \in powered' <=> Latest(e) \in powered
          /\ Latest(e) \in bridged' <=> Latest(e) \in bridged
          /\ \A k \in Kinds : Filter(e, k) \in registered' <=> Filter(e, k) \in registered
    BY <2>3, LatestParts, LatestDiffer DEF StartTouches, LifeInv
  <2>5. Owned(Latest(e)) =>
          \A k \in Kinds : Untouched(Filter(e, k)) => Untouched(Filter(e, k))'
    <3>1. Owned(Latest(e)) =>
            \A k \in Kinds : Filter(e, k) \in children' <=> Filter(e, k) \in children
      BY <2>3, LatestParts, LatestDiffer DEF StartTouches, LifeInv
    <3> QED BY <1>3, <2>3, <2>4, <3>1, LatestParts DEF LifeInv, Untouched, Cached
  <2> QED BY <2>2, <2>4, <2>5, StartStands
<1>5. \A a \in Adapters : Owned(a)' <=> Owned(a)
  BY <1>3, AdapterParts DEF Owned, StartTouches
<1>6. Owned(Latest(d))
  BY <1>2 DEF Owned, StartTouches
<1>7. Owners'
  <2>1. \A a \in Adapters : a[2] > starts[a[1]] => a # Latest(d)
    BY <1>2 DEF LifeInv, AdapterTypes, Latest
  <2>2. ASSUME NEW a \in Adapters, a # Latest(d)
        PROVE  /\ cache'[a] = cache[a] /\ (a \in powered' <=> a \in powered)
               /\ (a \in bridged' <=> a \in bridged)
               /\ \A k \in Kinds : <<a, k>> \in registered' <=> <<a, k>> \in registered
               /\ \A k \in Kinds : Untouched(<<a, k>>)' <=> Untouched(<<a, k>>)
    <3>1. \A k \in Kinds : /\ <<a, k>> \in registered' <=> <<a, k>> \in registered
                           /\ <<a, k>> \in children' <=> <<a, k>> \in children
      BY <2>2, AdapterParts DEF StartTouches
    <3>2. cache'[a] = cache[a] /\ (a \in powered' <=> a \in powered)
          /\ (a \in bridged' <=> a \in bridged)
      BY <2>2 DEF StartTouches
    <3> QED BY <1>3, <3>1, <3>2 DEF Untouched, Cached
  <2>3. \A e \in Devices :
          /\ common'[e] # 0 => common'[e] = starts'[e] /\ dev'[e] \in {"started", "failed"}
          /\ dev'[e] = "started" => common'[e] # 0
    BY DEF LifeInv, Owners, StartTouches
  <2>4. ASSUME NEW a \in Adapters
        PROVE  /\ Owned(a)' => a \notin leaving'
               /\ cache'[a] # {} => Owned(a)'
               /\ a \in powered' \/ (\E k \in Kinds : <<a, k>> \in registered') =>
                    Owned(a)' \/ a \in leaving'
    BY <1>5, <1>6, <2>2 DEF LifeInv, Owners, StartTouches
  <2>5. ASSUME NEW a \in Adapters, a[2] > starts'[a[1]]
        PROVE  /\ a \notin powered' /\ a \notin leaving' /\ a \notin bridged'
               /\ cache'[a] = {} /\ \A k \in Kinds : Untouched(<<a, k>>)'
    <3>1. a[2] > starts[a[1]] /\ leaving' = leaving
      BY <2>5 DEF StartTouches
    <3> QED BY <2>1, <2>2, <3>1 DEF LifeInv, Owners
  <2>6. registered' \subseteq children'
    BY DEF LifeInv, Owners, StartTouches
  <2> QED BY <2>3, <2>4, <2>5, <2>6 DEF Owners
<1>8. Streams'
  BY <1>3 DEF LifeInv, Streams, Users, StartTouches
<1> QED BY <1>1, <1>4, <1>7, <1>8

LEMMA HoldersOf ==
  ASSUME AdapterTypes, NEW f \in Filters
  PROVE  /\ PortHolders[f] = One(f \in registered) + One(Cached(f)) + One(Out(f)) + Users(f)
         /\ MiniportHolders[f] = One(f \in children) + One(Cached(f)) + One(Out(f))
                                 + (IF f[2] = "wave" THEN Users(f) ELSE 0)
  BY DEF PortHolders, MiniportHolders

\* Of the holders, a step of StartDevice changes those of its own adapter and filters.
LEMMA StartHolders ==
  ASSUME LifeInv, NEW d \in Devices, StartTouches(d)
  PROVE  /\ \A f \in Filters : f[1] # Latest(d) =>
              PortHolders[f]' = PortHolders[f] /\ MiniportHolders[f]' = MiniportHolders[f]
         /\ \A a \in Adapters : a # Latest(d) => AdapterHolders[a]' = AdapterHolders[a]
         /\ \A a \in Adapters : a = Latest(d) =>
              /\ AdapterHolders[a] = 2 + One(a \in powered)
              /\ AdapterHolders[a]' = 2 + One(a \in powered')
         /\ \A f \in Filters : f[1] = Latest(d) =>
              LET n == One(f[2] \in cache[f[1]]) + One(f[2] \in start[d].out)
                  u == One(f[2] \in cache'[f[1]]) + One(f[2] \in start'[d].out)
              IN  /\ PortHolders[f] = One(f \in registered) + n + Users(f)
                  /\ PortHolders[f]' = One(f \in registered') + u + Users(f)
                  /\ MiniportHolders[f] = One(f \in children) + n
                                          + (IF f[2] = "wave" THEN Users(f) ELSE 0)
                  /\ MiniportHolders[f]' = One(f \in children') + u
                                           + (IF f[2] = "wave" THEN Users(f) ELSE 0)
<1>1. AdapterTypes /\ StartOf(d)
  BY DEF LifeInv
<1>2. starts[d] > 0 /\ common[d] = 0
  BY <1>1 DEF StartOf, StartTouches
<1>3. /\ \A e \in Devices : Latest(e)' = Latest(e)
      /\ \A f : Users(f)' = Users(f) /\ Users(f) \in Nat
  BY UsersType DEF StartTouches, Latest, Users, Opened
<1>4. \A e \in Devices : e # d => start'[e] = start[e]
  BY <1>1 DEF StartTouches, AdapterTypes
<1>5. ASSUME NEW f \in Filters, f[1] # Latest(d)
      PROVE  PortHolders[f]' = PortHolders[f] /\ MiniportHolders[f]' = MiniportHolders[f]
  <2>1. f[1] \in Adapters /\ f[1][1] \in Devices
    BY FilterParts
  <2>2. /\ f \in registered' <=> f \in registered
        /\ f \in children' <=> f \in children
        /\ Cached(f)' <=> Cached(f)
    BY <1>5, <2>1 DEF StartTouches, Cached
  <2>3. Out(f)' <=> Out(f)
    BY <1>3, <1>4, <1>5, <2>1 DEF Out
  <2> QED BY <1>3, <2>2, <2>3 DEF PortHolders, MiniportHolders, One
<1>6. ASSUME NEW a \in Adapters, a # Latest(d)
      PROVE  AdapterHolders[a]' = AdapterHolders[a]
  <2>1. a[1] \in Devices
    BY AdapterParts
  <2>2. /\ Starting(a)' <=> Starting(a)
        /\ common'[a[1]] = common[a[1]] /\ (a \in powered' <=> a \in powered)
    BY <1>3, <1>6, <2>1 DEF Starting, StartTouches
  <2> QED BY <2>2 DEF AdapterHolders, One
<1>7. ASSUME NEW a \in Adapters, a = Latest(d)
      PROVE  /\ AdapterHolders[a] = 2 + One(a \in powered)
             /\ AdapterHolders[a]' = 2 + One(a \in powered')
  <2>1. a[1] = d /\ a[2] > 0
    BY <1>1, <1>2, <1>7, LatestParts
  <2>2. Starting(a) /\ Starting(a)'
    BY <1>3, <1>7, <2>1 DEF Starting, StartTouches
  <2>3. common[a[1]] # a[2] /\ common'[a[1]] # a[2]
    BY <1>2, <2>1 DEF StartTouches
  <2> QED BY <2>2, <2>3 DEF AdapterHolders, One
<1>8. ASSUME NEW f \in Filters, f[1] = Latest(d)
      PROVE  LET n == One(f[2] \in cache[f[1]]) + One(f[2] \in start[d].out)
                 u == One(f[2] \in cache'[f[1]]) + One(f[2] \in start'[d].out)
             IN  /\ PortHolders[f] = One(f \in registered) + n + Users(f)
                 /\ PortHolders[f]' = One(f \in registered') + u + Users(f)
                 /\ MiniportHolders[f] = One(f \in children) + n
                                         + (IF f[2] = "wave" THEN Users(f) ELSE 0)
                 /\ MiniportHolders[f]' = One(f \in children') + u
                                          + (IF f[2] = "wave" THEN Users(f) ELSE 0)
  <2>1. f[1][1] = d
    BY <1>1, <1>2, <1>8, LatestParts
  <2>2. /\ Cached(f) <=> f[2] \in cache[f[1]]
        /\ Cached(f)' <=> f[2] \in cache'[f[1]]
    BY DEF Cached
  <2>3. /\ Out(f) <=> f[2] \in start[d].out
        /\ Out(f)' <=> f[2] \in start'[d].out
    BY <1>3, <1>8, <2>1 DEF Out
  <2>4. /\ PortHolders[f] = One(f \in registered) + One(Cached(f)) + One(Out(f)) + Users(f)
        /\ MiniportHolders[f] = One(f \in children) + One(Cached(f)) + One(Out(f))
                                + (IF f[2] = "wave" THEN Users(f) ELSE 0)
    BY <1>1, HoldersOf
  <2>5. /\ PortHolders[f]' = One(f \in registered') + One(Cached(f)') + One(Out(f)') + Users(f)
        /\ MiniportHolders[f]' = One(f \in children') + One(Cached(f)') + One(Out(f)')
                                 + (IF f[2] = "wave" THEN Users(f) ELSE 0)
    BY <1>3 DEF PortHolders, MiniportHolders, One
  <2>6. \A p : One(p) \in Nat
    BY DEF One
  <2>7. /\ One(Cached(f)) = One(f[2] \in cache[f[1]])
        /\ One(Out(f)) = One(f[2] \in start[d].out)
        /\ One(Cached(f)') = One(f[2] \in cache'[f[1]])
        /\ One(Out(f)') = One(f[2] \in start'[d].out)
    BY <2>2, <2>3 DEF One
  <2> QED BY <1>3, <2>4, <2>5, <2>6, <2>7
<1> QED BY <1>5, <1>6, <1>7, <1>8

\* When none of its filters' holders change either, the heap may stay as it is.
LEMMA StartKeepsHeap ==
  ASSUME LifeInv, NEW d \in Devices, StartTouches(d), heap' = heap,
         registered' = registered, children' = children, cache' = cache, powered' = powered,
         start'[d].out = start[d].out
  PROVE  Balanced(heap, PortHolders, MiniportHolders, AdapterHolders)'
<1>1. starts[d] > 0 /\ AdapterTypes
  BY DEF LifeInv, StartOf, StartTouches
<1>2. \A f \in Filters :
        PortHolders[f]' = PortHolders[f] /\ MiniportHolders[f]' = MiniportHolders[f]
  <2> TAKE f \in Filters
  <2>1. CASE f[1] # Latest(d)
    BY <2>1, StartHolders
  <2>2. CASE f[1] = Latest(d)
    BY <2>2, StartHolders
  <2> QED BY <2>1, <2>2
<1>3. \A a \in Adapters : AdapterHolders[a]' = AdapterHolders[a]
  <2> TAKE a \in Adapters
  <2> QED BY StartHolders
<1>4. /\ HolderTypes(PortHolders, MiniportHolders, AdapterHolders)
      /\ Balanced(heap, PortHolders, MiniportHolders, AdapterHolders)
  BY <1>1, HoldersType DEF LifeInv
<1> QED BY <1>2, <1>3, <1>4, BalancedNext DEF StartTouches

----------------------------------------------------------------------------
(* StartDevice.                                                            *)

\* What is known of a device that is starting.
LEMMA StartFacts ==
  ASSUME LifeInv, NEW d \in Devices, dev[d] = "starting"
  PROVE  /\ AdapterTypes /\ StartOf(d) /\ StartTells(d) /\ start[d] \in StartType
         /\ start[d].step # "idle" /\ starts[d] > 0 /\ common[d] = 0
         /\ Latest(d) \in Adapters /\ Latest(d)[1] = d /\ Latest(d) \notin leaving
         /\ \A k \in Kinds : /\ Filter(d, k) \in Filters /\ Filter(d, k)[1] = Latest(d)
                             /\ Filter(d, k)[2] = k
<1>1. AdapterTypes /\ StartOf(d) /\ StartTells(d) /\ start[d] \in StartType
  BY DEF LifeInv, AdapterTypes, StartType
<1>2. start[d].step # "idle" /\ starts[d] > 0 /\ common[d] = 0
  BY <1>1 DEF StartOf
<1>3. /\ Latest(d) \in Adapters /\ Latest(d)[1] = d
      /\ \A k \in Kinds : /\ Filter(d, k) \in Filters /\ Filter(d, k)[1] = Latest(d)
                          /\ Filter(d, k)[2] = k
  BY <1>1, <1>2, LatestParts
<1>4. Latest(d) \notin leaving
  BY <1>3 DEF LifeInv, Owners, Owned
<1> QED BY <1>1, <1>2, <1>3, <1>4

LEMMA StartOfNext ==
  ASSUME LifeInv, NEW d \in Devices, StartTouches(d),
         start'[d].step \notin {"idle", "init"},
         start'[d].step = "exit" => start'[d].out = {},
         \A k \in Kinds :
           /\ start'[d].step \in Before(k) =>
                start[d].step \in Before(k) /\ Filter(d, k) \notin registered'
                /\ Filter(d, k) \notin children' /\ k \notin cache'[Latest(d)] /\ k \notin start'[d].out
           /\ k \in start'[d].out => Filter(d, k) \in registered'
  PROVE  StartOf(d)'
<1>1. /\ StartOf(d) /\ starts[d] > 0 /\ common[d] = 0
      /\ \A k \in Kinds : Filter(d, k)[1] = Latest(d) /\ Filter(d, k)[2] = k
  BY StartFacts DEF StartTouches
<1>2. /\ Latest(d)' = Latest(d) /\ \A k : Filter(d, k)' = Filter(d, k)
      /\ \A f : Opened(f)' = Opened(f)
  BY DEF StartTouches, Latest, Filter, Opened
<1>3. \A k \in Kinds : start'[d].step \in Before(k) => Untouched(Filter(d, k))'
  <2> SUFFICES ASSUME NEW k \in Kinds, start'[d].step \in Before(k)
               PROVE  Untouched(Filter(d, k))'
    OBVIOUS
  <2>1. Untouched(Filter(d, k))
    BY <1>1 DEF StartOf, StartTouches
  <2> QED BY <1>1, <1>2, <2>1 DEF Untouched, Cached
<1> QED BY <1>1, <1>2, <1>3 DEF StartOf, StartTouches, Before

LEMMA StartTellsNext ==
  ASSUME LifeInv, NEW d \in Devices, StartTouches(d),
         start'[d].step # "exit" =>
           \A k \in Kinds : Filter(d, k) \in registered' \/ k \in cache'[Latest(d)] =>
                              k \in start'[d].out,
         start'[d].step \in Before("wave") \union {"connect"} => Latest(d) \notin bridged',
         start'[d].step \in {"connect", "unwind"} /\ start'[d].ok =>
           "wave" \in start'[d].out,
         start'[d].step \in {"unwind", "exit"} /\ ~start'[d].ok => Latest(d) \notin bridged',
         start'[d].step = "exit" =>
           IF start'[d].ok THEN Filter(d, "wave") \in registered'
           ELSE \A k \in Kinds : Filter(d, k) \notin registered' /\ k \notin cache'[Latest(d)]
  PROVE  StartTells(d)'
<1>1. Latest(d)' = Latest(d) /\ \A k : Filter(d, k)' = Filter(d, k)
  BY DEF StartTouches, Latest, Filter
<1> QED BY <1>1 DEF StartTells, StartTouches, Before

LEMMA InitAdapterInv ==
  ASSUME LifeInv, NEW d \in Devices, NEW inits \in BOOLEAN, NEW registers \in BOOLEAN,
         InitAdapter(d, inits, registers)
  PROVE  LifeInv'
<1> DEFINE x == Latest(d)
<1>1. /\ AdapterTypes /\ StartOf(d) /\ StartTells(d) /\ start[d] \in StartType
      /\ x \in Adapters /\ x \notin powered
      /\ start[d].step = "init" /\ dev[d] = "starting" /\ start[d].out = {}
      /\ \A k \in Kinds : /\ Filter(d, k) \notin registered /\ Filter(d, k) \notin children
                          /\ k \notin cache[x]
  <2>1. start[d].step = "init" /\ dev[d] = "starting"
    BY DEF InitAdapter, At
  <2>2. /\ AdapterTypes /\ StartOf(d) /\ StartTells(d) /\ start[d] \in StartType
        /\ x \in Adapters
        /\ \A k \in Kinds : Filter(d, k)[1] = x /\ Filter(d, k)[2] = k
    BY <2>1, StartFacts
  <2>3. \A k \in Kinds : Untouched(Filter(d, k)) /\ k \notin start[d].out
    BY <2>1, <2>2 DEF StartOf, Before
  <2>4. start[d].out = {}
    BY <2>2, <2>3 DEF StartType
  <2> QED BY <2>1, <2>2, <2>3, <2>4 DEF StartOf, Untouched, Cached
<1> DEFINE done == inits /\ registers
           to == IF done THEN "topology" ELSE "exit"
<1>2. start' = [start EXCEPT ![d] = [step |-> to, ok |-> done, out |-> {}]]
  BY DEF InitAdapter, Continue
<1>3. to \in {"topology", "exit"} /\ (to = "topology" <=> done) /\ done \in BOOLEAN
  OBVIOUS
<1> HIDE DEF to, done
<1>4. start'[d].step = to /\ start'[d].ok = done /\ start'[d].out = {}
  BY <1>1, <1>2 DEF AdapterTypes
<1>5. [step |-> to, ok |-> done, out |-> {}] \in StartType
  BY <1>3 DEF StartType, Steps
<1>6. StartTouches(d)
  <2>1. \E r \in StartType : r.step # "idle" /\ start' = [start EXCEPT ![d] = r]
    BY <1>2, <1>3, <1>5
  <2>2. powered' = powered \/ powered' = powered \union {x}
    BY DEF InitAdapter
  <2>3. UNCHANGED <<dev, starts, common, leaving, handle, allocated, refused, registered,
                    children, bridged, cache>>
    BY DEF InitAdapter
  <2> QED BY <1>1, <2>1, <2>2, <2>3 DEF StartTouches, AdapterTypes
<1>7. registered' = registered /\ children' = children /\ cache' = cache /\ bridged' = bridged
  BY DEF InitAdapter
<1>8. StartOf(d)'
  BY <1>1, <1>3, <1>4, <1>6, <1>7, StartOfNext DEF Before
<1>9. StartTells(d)'
  BY <1>1, <1>3, <1>4, <1>6, <1>7, StartTellsNext DEF StartTells, Before
<1>10. Balanced(heap, PortHolders, MiniportHolders, AdapterHolders)'
  <2>1. CASE done
    <3> DEFINE a == AdapterHolders
               q == [a EXCEPT ![x] = a[x] + 1]
               g == AddAdapter(heap, x)
    <3>1. heap' = g /\ powered' = powered \union {x}
      BY <2>1 DEF InitAdapter, done
    <3>2. /\ HolderTypes(PortHolders, MiniportHolders, a)
          /\ Balanced(heap, PortHolders, MiniportHolders, a)
      BY <1>1, HoldersType DEF LifeInv
    <3>3. a[x] = 2
      BY <1>1, <1>6, StartHolders DEF One
    <3>4. \A b \in Adapters : AdapterHolders[b]' = q[b]
      <4> TAKE b \in Adapters
      <4>1. CASE b = x
        <5>1. AdapterHolders[b]' = 3
          BY <1>6, <3>1, <4>1, StartHolders DEF One
        <5> QED BY <3>2, <3>3, <4>1, <5>1 DEF HolderTypes
      <4>2. CASE b # x
        BY <1>6, <3>2, <4>2, StartHolders DEF HolderTypes
      <4> QED BY <4>1, <4>2
    <3>5. \A f \in Filters :
            PortHolders[f]' = PortHolders[f] /\ MiniportHolders[f]' = MiniportHolders[f]
      <4> TAKE f \in Filters
      <4>1. CASE f[1] # Latest(d)
        BY <1>6, <4>1, StartHolders
      <4>2. CASE f[1] = Latest(d)
        BY <1>1, <1>4, <1>6, <1>7, <4>2, StartHolders
      <4> QED BY <4>1, <4>2
    <3> HIDE DEF x, a, q, g
    <3>6. HolderTypes(PortHolders, MiniportHolders, q)
          /\ Balanced(g, PortHolders, MiniportHolders, q)
      BY <1>1, <3>2, <3>3, AddAdapterBalanced DEF q, g
    <3> QED BY <1>6, <3>1, <3>4, <3>5, <3>6, BalancedNext DEF StartTouches
  <2>2. CASE ~done
    <3>1. heap' = heap /\ powered' = powered /\ start'[d].out = start[d].out
      BY <1>1, <1>4, <2>2 DEF InitAdapter, done
    <3> QED BY <1>6, <1>7, <3>1, StartKeepsHeap
  <2> QED BY <2>1, <2>2
<1> QED BY <1>6, <1>8, <1>9, <1>10, StartStep DEF LifeInv, Balanced

\* A step that makes nothing yet goes on to the next one, or to its failure.
LEMMA StartMovesInv ==
  ASSUME LifeInv, NEW d \in Devices, NEW k, NEW next, NEW to, NEW ok \in BOOLEAN,
         \/ k = "topology" /\ next = "wave"
         \/ k = "wave" /\ next = "connect",
         start[d].step \in {k, FilterStep(k)}, to \in {FilterStep(k), next},
         to = next => ~ok, dev[d] = "starting",
         start' = [start EXCEPT ![d] = [step |-> to, ok |-> ok, out |-> start[d].out]],
         UNCHANGED <<dev, starts, common, heap, cache, registered, children, bridged,
                     powered, leaving, handle, allocated, refused>>
  PROVE  LifeInv'
<1> DEFINE s == start[d]
<1>1. /\ StartOf(d) /\ StartTells(d) /\ s \in StartType /\ AdapterTypes
      /\ s.step \in {k, FilterStep(k)} /\ dev[d] = "starting" /\ Latest(d) \in Adapters
      /\ \A j \in Kinds : Filter(d, j)[1] = Latest(d) /\ Filter(d, j)[2] = j
  BY StartFacts
<1>2. /\ to \in Steps \ {"idle", "init", "exit", "unwind"}
      /\ (k = "topology" => to \in {"topology filter", "wave"})
      /\ (k = "wave" => to \in {"wave filter", "connect"}) /\ (to = "connect" => ~ok)
  BY DEF FilterStep, Steps
<1>3. start'[d].step = to /\ start'[d].ok = ok /\ start'[d].out = s.out
  BY <1>1 DEF AdapterTypes
<1>4. [step |-> to, ok |-> ok, out |-> s.out] \in StartType
  BY <1>1, <1>2 DEF StartType
<1>5. StartTouches(d)
  <2>1. \E r \in StartType : r.step # "idle" /\ start' = [start EXCEPT ![d] = r]
    BY <1>2, <1>4
  <2> QED BY <1>1, <2>1 DEF StartTouches, AdapterTypes
<1>6. StartOf(d)'
  <2>1. ASSUME NEW j \in Kinds, to \in Before(j)
        PROVE  s.step \in Before(j) /\ Untouched(Filter(d, j)) /\ j \notin s.out
    <3>1. s.step \in Before(j)
      BY <1>1, <1>2, <2>1 DEF Before, Kinds, FilterStep
    <3> QED BY <1>1, <3>1 DEF StartOf, Before
  <2>2. \A j \in Kinds :
          /\ to \in Before(j) =>
               s.step \in Before(j) /\ Filter(d, j) \notin registered'
               /\ Filter(d, j) \notin children' /\ j \notin cache'[Latest(d)]
               /\ j \notin s.out
          /\ j \in s.out => Filter(d, j) \in registered'
    <3>1. \A j \in Kinds : to \in Before(j) =>
            s.step \in Before(j) /\ Filter(d, j) \notin registered
            /\ Filter(d, j) \notin children /\ j \notin cache[Latest(d)] /\ j \notin s.out
      BY <1>1, <2>1 DEF Untouched, Cached
    <3>2. s.step # "idle"
      BY <1>1 DEF StartOf
    <3>3. \A j \in Kinds : j \in s.out => Filter(d, j) \in registered
      BY <1>1, <3>2 DEF StartOf
    <3> QED BY <3>1, <3>3
  <2> QED BY <1>2, <1>3, <1>5, <2>2, StartOfNext
<1>7. StartTells(d)'
  <2>1. s.step \in Before("wave") /\ s.step \notin {"idle", "exit"}
    BY <1>1 DEF Before, FilterStep
  <2> QED BY <1>1, <1>2, <1>3, <1>5, <2>1, StartTellsNext DEF StartTells, Before
<1>8. Balanced(heap, PortHolders, MiniportHolders, AdapterHolders)'
  BY <1>3, <1>5, StartKeepsHeap
<1> QED BY <1>5, <1>6, <1>7, <1>8, StartStep DEF LifeInv, Balanced

LEMMA CreateAudioInterfaceInv ==
  ASSUME LifeInv, NEW d \in Devices, NEW k, NEW next, NEW creates \in BOOLEAN,
         \/ k = "topology" /\ next = "wave"
         \/ k = "wave" /\ next = "connect",
         CreateAudioInterface(d, k, next, creates)
  PROVE  LifeInv'
<1>1. start[d].step = k /\ dev[d] = "starting"
  BY DEF CreateAudioInterface, At
<1>2. start[d].ok \in BOOLEAN
  BY <1>1, StartFacts DEF StartType
<1>3. UNCHANGED <<dev, starts, common, heap, cache, registered, children, bridged, powered,
                  leaving, handle, allocated, refused>>
  BY DEF CreateAudioInterface
<1>4. CASE creates
  <2>1. start' = [start EXCEPT ![d] = [step |-> FilterStep(k), ok |-> start[d].ok,
                                       out |-> start[d].out]]
    BY <1>4 DEF CreateAudioInterface, Continue
  <2>2. FilterStep(k) # next
    BY DEF FilterStep
  <2> QED BY <1>1, <1>2, <1>3, <2>1, <2>2, StartMovesInv
<1>5. CASE ~creates
  <2>1. start' = [start EXCEPT ![d] = [step |-> next, ok |-> FALSE, out |-> start[d].out]]
    BY <1>5 DEF CreateAudioInterface, Continue
  <2> QED BY <1>1, <1>3, <2>1, StartMovesInv
<1> QED BY <1>4, <1>5

LEMMA MakeFailsInv ==
  ASSUME LifeInv, NEW d \in Devices, NEW k, NEW next,
         \/ k = "topology" /\ next = "wave"
         \/ k = "wave" /\ next = "connect",
         MakeFails(d, k, next)
  PROVE  LifeInv'
<1>1. start[d].step = FilterStep(k) /\ dev[d] = "starting"
  BY DEF MakeFails, At
<1>2. UNCHANGED <<dev, starts, common, heap, cache, registered, children, bridged, powered,
                  leaving, handle, allocated, refused>>
  BY DEF MakeFails
<1>3. start' = [start EXCEPT ![d] = [step |-> next, ok |-> FALSE, out |-> start[d].out]]
  BY DEF MakeFails, Continue
<1> QED BY <1>1, <1>2, <1>3, StartMovesInv

\* The install of a filter is what makes its port and its miniport.
LEMMA InstallSubdeviceInv ==
  ASSUME LifeInv, NEW d \in Devices, NEW k, NEW next,
         NEW registers \in BOOLEAN, NEW caches \in BOOLEAN,
         \/ k = "topology" /\ next = "wave"
         \/ k = "wave" /\ next = "connect",
         InstallSubdevice(d, k, next, registers, caches)
  PROVE  LifeInv'
<1> DEFINE s == start[d]
           x == Latest(d)
           f == Filter(d, k)
           ok == registers /\ caches
           out == IF registers THEN s.out \union {k} ELSE s.out
<1>1. s.step = FilterStep(k) /\ dev[d] = "starting" /\ k \in Kinds
  BY DEF InstallSubdevice, At, Kinds
<1>2. /\ StartOf(d) /\ StartTells(d) /\ s \in StartType /\ AdapterTypes /\ x \in Adapters
      /\ \A j \in Kinds : /\ Filter(d, j) \in Filters /\ Filter(d, j)[1] = x
                          /\ Filter(d, j)[2] = j
  BY <1>1, StartFacts
<1>3. f \in Filters /\ f[1] = x /\ f[2] = k
  BY <1>1, <1>2
<1>4. Untouched(f) /\ k \notin s.out
  BY <1>1, <1>2 DEF StartOf, Before, FilterStep, Kinds
<1>5. f \notin registered /\ f \notin children /\ k \notin cache[x] /\ Users(f) = 0
  BY <1>3, <1>4, UsersNone DEF Untouched, Cached
<1>6. start' = [start EXCEPT ![d] = [step |-> next, ok |-> ok, out |-> out]]
  BY <1>2 DEF InstallSubdevice, Continue
<1>7. ok \in BOOLEAN /\ out \in SUBSET Kinds /\ next \in Steps \ {"idle", "init", "exit"}
  BY <1>1, <1>2 DEF StartType, Steps
<1>8. /\ registered' = IF registers THEN registered \union {f} ELSE registered
      /\ cache' = IF ok THEN [cache EXCEPT ![x] = cache[x] \union {k}] ELSE cache
      /\ children' = children \union {f} /\ bridged' = bridged /\ powered' = powered
      /\ heap' = IF ok THEN CacheSubdevice(KeepFilter(heap, f), f)
                 ELSE IF registers THEN KeepFilter(heap, f) ELSE DiscardFilter(heap, f)
      /\ UNCHANGED <<dev, starts, common, leaving, handle, allocated, refused>>
  BY DEF InstallSubdevice
<1>9. /\ \A j \in Kinds : j \in out <=> j \in s.out \/ (registers /\ j = k)
      /\ ok => registers
  BY <1>1
<1> HIDE DEF ok, out
<1>10. start'[d].step = next /\ start'[d].ok = ok /\ start'[d].out = out
  BY <1>2, <1>6 DEF AdapterTypes
<1>11. [step |-> next, ok |-> ok, out |-> out] \in StartType
  BY <1>7 DEF StartType
<1>12. /\ \A j \in Kinds : j \in cache'[x] <=> j \in cache[x] \/ (ok /\ j = k)
       /\ \A a \in Adapters : a # x => cache'[a] = cache[a]
       /\ cache' \in [Adapters -> SUBSET Kinds]
  BY <1>1, <1>2, <1>8 DEF AdapterTypes
<1>13. \A j \in Kinds :
         Filter(d, j) \in registered' <=> Filter(d, j) \in registered \/ (registers /\ j = k)
  BY <1>1, <1>2, <1>8
<1>14. StartTouches(d)
  <2>1. \E r \in StartType : r.step # "idle" /\ start' = [start EXCEPT ![d] = r]
    BY <1>6, <1>7, <1>11
  <2>2. /\ registered' \subseteq Filters
        /\ children \subseteq children' /\ children' \subseteq Filters
        /\ registered' \subseteq registered \union children'
        /\ \A e \in Filters : e[1] # x => (e \in registered' <=> e \in registered)
        /\ \A e \in Filters : e[1] # x => (e \in children' <=> e \in children)
    BY <1>2, <1>3, <1>8 DEF AdapterTypes
  <2> QED BY <1>1, <1>2, <1>8, <1>12, <2>1, <2>2 DEF StartTouches, AdapterTypes
<1>15. StartOf(d)'
  <2>1. ASSUME NEW j \in Kinds, next \in Before(j)
        PROVE  s.step \in Before(j) /\ Untouched(Filter(d, j)) /\ j \notin s.out /\ j # k
    <3>1. s.step \in Before(j) /\ j # k
      BY <1>1, <2>1 DEF Before, Kinds, FilterStep
    <3> QED BY <1>1, <1>2, <3>1 DEF StartOf, Before
  <2>2. ASSUME NEW j \in Kinds, next \in Before(j)
        PROVE  /\ Filter(d, j) \notin registered' /\ Filter(d, j) \notin children'
               /\ j \notin cache'[x] /\ j \notin out
    <3>1. Filter(d, j) \notin children'
      BY <1>2, <1>3, <1>8, <2>1, <2>2 DEF Untouched
    <3> QED BY <1>2, <1>9, <1>12, <1>13, <2>1, <2>2, <3>1 DEF Untouched, Cached
  <2>3. \A j \in Kinds : j \in out => Filter(d, j) \in registered'
    BY <1>1, <1>2, <1>9, <1>13 DEF StartOf, FilterStep
  <2> QED BY <1>7, <1>10, <1>14, <2>1, <2>2, <2>3, StartOfNext
<1>16. StartTells(d)'
  <2>1. \A j \in Kinds : Filter(d, j) \in registered' \/ j \in cache'[x] => j \in out
    BY <1>1, <1>2, <1>9, <1>12, <1>13 DEF StartTells, FilterStep
  <2>2. x \notin bridged'
    BY <1>1, <1>2, <1>8 DEF StartTells, FilterStep, Before, Kinds
  <2>3. next = "connect" /\ ok => "wave" \in out
    BY <1>1, <1>9
  <2> QED BY <1>7, <1>10, <1>14, <2>1, <2>2, <2>3, StartTellsNext
<1>17. Balanced(heap, PortHolders, MiniportHolders, AdapterHolders)'
  <2> DEFINE p == PortHolders
             m == MiniportHolders
             a == AdapterHolders
             pk == [p EXCEPT ![f] = 2]
             mk == [m EXCEPT ![f] = 2]
             md == [m EXCEPT ![f] = 1]
             pc == [pk EXCEPT ![f] = pk[f] + 1]
             mc == [mk EXCEPT ![f] = mk[f] + 1]
             pn == IF ok THEN pc ELSE IF registers THEN pk ELSE p
             mn == IF ok THEN mc ELSE IF registers THEN mk ELSE md
  <2>1. HolderTypes(p, m, a) /\ Balanced(heap, p, m, a)
    BY <1>2, HoldersType DEF LifeInv
  <2>2. p[f] = 0 /\ m[f] = 0 /\ a[f[1]] > 0
    <3>1. p[f] = 0 /\ m[f] = 0
      BY <1>1, <1>3, <1>4, <1>5, <1>14, StartHolders DEF One
    <3>2. a[f[1]] > 0
      BY <1>2, <1>3, <1>14, StartHolders DEF One
    <3> QED BY <3>1, <3>2
  <2>3. /\ pn[f] = One(registers) + One(ok) + One(registers)
        /\ mn[f] = 1 + One(ok) + One(registers)
        /\ \A e \in Filters : e # f => pn[e] = p[e] /\ mn[e] = m[e]
    BY <1>3, <1>9, <2>1, <2>2 DEF HolderTypes, One
  <2> HIDE DEF p, m, a, f
  <2>4. HolderTypes(pn, mn, a) /\ Balanced(heap', pn, mn, a)
    <3>1. HolderTypes(pk, mk, a) /\ Balanced(KeepFilter(heap, f), pk, mk, a)
      BY <1>3, <2>1, <2>2, KeepFilterBalanced
    <3>2. mk[f] = 2
      BY <1>3, <2>1 DEF HolderTypes
    <3> DEFINE g == KeepFilter(heap, f)
    <3> HIDE DEF pk, mk, g
    <3>3. HolderTypes(pc, mc, a) /\ Balanced(CacheSubdevice(g, f), pc, mc, a)
      BY <1>3, <3>1, <3>2, CacheSubdeviceBalanced DEF g
    <3>4. HolderTypes(p, md, a) /\ Balanced(DiscardFilter(heap, f), p, md, a)
      BY <1>3, <2>1, <2>2, DiscardFilterBalanced
    <3> HIDE DEF pc, mc, md
    <3> QED BY <1>8, <1>9, <2>1, <3>1, <3>3, <3>4 DEF g
  <2> HIDE DEF pn, mn
  <2>5. ASSUME NEW e \in Filters
        PROVE  PortHolders[e]' = pn[e] /\ MiniportHolders[e]' = mn[e]
    <3>1. CASE e[1] # x
      BY <1>3, <1>14, <2>3, <3>1, StartHolders DEF p, m
    <3>2. CASE e[1] = x /\ e # f
      <4>1. e[2] # k /\ e[2] \in Kinds /\ e = Filter(d, e[2])
        BY <1>3, <3>2, FilterParts DEF f, Filter
      <4>2. /\ e \in registered' <=> e \in registered
            /\ e \in children' <=> e \in children
            /\ e[2] \in cache'[e[1]] <=> e[2] \in cache[e[1]]
            /\ e[2] \in out <=> e[2] \in s.out
        BY <1>8, <1>9, <1>12, <1>13, <3>2, <4>1
      <4>3. /\ One(e \in registered') = One(e \in registered)
            /\ One(e \in children') = One(e \in children)
            /\ One(e[2] \in cache'[e[1]]) = One(e[2] \in cache[e[1]])
            /\ One(e[2] \in start'[d].out) = One(e[2] \in start[d].out)
        BY <1>10, <4>2 DEF One
      <4>4. PortHolders[e]' = PortHolders[e] /\ MiniportHolders[e]' = MiniportHolders[e]
        BY <1>14, <3>2, <4>3, StartHolders
      <4> QED BY <2>3, <3>2, <4>4 DEF p, m
    <3>3. CASE e = f
      <4>1. /\ e \in registered' <=> registers
            /\ e \in children'
            /\ e[2] \in cache'[e[1]] <=> ok
            /\ e[2] \in out <=> registers
        BY <1>1, <1>3, <1>4, <1>5, <1>8, <1>9, <1>12, <3>3 DEF f
      <4> QED BY <1>3, <1>5, <1>10, <1>14, <2>3, <3>3, <4>1, StartHolders DEF One, f
    <3> QED BY <3>1, <3>2, <3>3
  <2>6. \A b \in Adapters : AdapterHolders[b]' = a[b]
    BY <1>8, <1>14, StartHolders DEF a
  <2> QED BY <1>8, <2>4, <2>5, <2>6, BalancedNext
<1> QED BY <1>14, <1>15, <1>16, <1>17, StartStep DEF LifeInv, Balanced

LEMMA ConnectTopologiesInv ==
  ASSUME LifeInv, NEW d \in Devices, NEW connects \in BOOLEAN, ConnectTopologies(d, connects)
  PROVE  LifeInv'
<1> DEFINE s == start[d]
           both == s.out = Kinds
           ok == IF both THEN connects ELSE s.ok
<1>1. /\ StartOf(d) /\ StartTells(d) /\ s \in StartType /\ AdapterTypes
      /\ s.step = "connect" /\ dev[d] = "starting" /\ Latest(d) \in Adapters
  BY StartFacts DEF ConnectTopologies, At
<1>2. start' = [start EXCEPT ![d] = [step |-> "unwind", ok |-> ok, out |-> s.out]]
  BY DEF ConnectTopologies, Continue
<1>3. ok \in BOOLEAN /\ (ok => "wave" \in s.out)
  BY <1>1 DEF StartTells, StartType, Kinds
<1>4. /\ UNCHANGED <<registered, children, cache, powered, heap>>
      /\ UNCHANGED <<dev, starts, common, leaving, handle, allocated, refused>>
      /\ bridged' \subseteq Adapters
      /\ \A a \in Adapters : a # Latest(d) => (a \in bridged' <=> a \in bridged)
  BY <1>1 DEF ConnectTopologies, Disconnected, AdapterTypes
<1>5. ~ok => Latest(d) \notin bridged'
  BY <1>1 DEF ConnectTopologies, Disconnected, StartTells
<1> HIDE DEF ok
<1>6. start'[d].step = "unwind" /\ start'[d].ok = ok /\ start'[d].out = s.out
  BY <1>1, <1>2 DEF AdapterTypes
<1>7. [step |-> "unwind", ok |-> ok, out |-> s.out] \in StartType
  BY <1>1, <1>3 DEF StartType, Steps
<1>8. StartTouches(d)
  <2>1. \E r \in StartType : r.step # "idle" /\ start' = [start EXCEPT ![d] = r]
    BY <1>2, <1>7
  <2> QED BY <1>1, <1>4, <2>1 DEF StartTouches, AdapterTypes
<1>9. StartOf(d)'
  BY <1>1, <1>4, <1>6, <1>8, StartOfNext DEF StartOf, Before
<1>10. StartTells(d)'
  BY <1>1, <1>3, <1>4, <1>5, <1>6, <1>8, StartTellsNext DEF StartTells, Before
<1>11. Balanced(heap, PortHolders, MiniportHolders, AdapterHolders)'
  BY <1>4, <1>6, <1>8, StartKeepsHeap
<1> QED BY <1>8, <1>9, <1>10, <1>11, StartStep DEF LifeInv, Balanced

\* Taking back a filter that was made: what PortCls and the cache held of it.
LEMMA DropBalanced ==
  ASSUME NEW h, NEW p, NEW m, NEW a, HolderTypes(p, m, a), Balanced(h, p, m, a),
         NEW d \in Devices, NEW k \in Kinds, Filter(d, k) \in Filters,
         p[Filter(d, k)] > One(k \in cache[Latest(d)]),
         k \in cache[Latest(d)] => m[Filter(d, k)] > 0
  PROVE  LET f == Filter(d, k)
             one == One(k \in cache[Latest(d)])
             q == [p EXCEPT ![f] = p[f] - (1 + one)]
             s == [m EXCEPT ![f] = m[f] - one]
         IN  /\ HolderTypes(q, s, a)
             /\ Balanced(RemoveCached(d, k, UnregisterSubdevice(d, k, h)), q, s, a)
<1> DEFINE f == Filter(d, k)
           c == k \in cache[Latest(d)]
           q1 == [p EXCEPT ![f] = p[f] - 1]
           q2 == [q1 EXCEPT ![f] = q1[f] - 1]
           s2 == [m EXCEPT ![f] = m[f] - 1]
           one == One(c)
           q == [p EXCEPT ![f] = p[f] - (1 + one)]
           s == [m EXCEPT ![f] = m[f] - one]
           g == ReleasePort(h, f)
           t == RemoveCached(d, k, UnregisterSubdevice(d, k, h))
<1>1. /\ p \in [Filters -> Nat] /\ m \in [Filters -> Nat] /\ f \in Filters
      /\ p[f] \in Nat /\ m[f] \in Nat /\ one \in {0, 1}
      /\ p[f] > 0 /\ (one = 1 => p[f] > 1 /\ m[f] > 0)
  BY DEF HolderTypes, One
<1>2. t = IF one = 1 THEN ReleaseMiniport(ReleasePort(g, f), f) ELSE g
  BY DEF RemoveCached, UnregisterSubdevice, One
<1> HIDE DEF f, one, t
<1>3. HolderTypes(q1, m, a) /\ Balanced(g, q1, m, a)
  BY <1>1, ReleasePortBalanced
<1>4. q1[f] = p[f] - 1
  BY <1>1
<1>5. CASE one = 1
  <2>1. q1[f] > 0 /\ m[f] > 0
    BY <1>1, <1>4, <1>5
  <2>2. q2 = q /\ s2 = s
    <3>1. q1[f] - 1 = p[f] - (1 + one)
      BY <1>1, <1>4, <1>5
    <3> DEFINE n == q1[f] - 1
    <3>2. q2 = [p EXCEPT ![f] = n]
      BY <1>1
    <3> QED BY <1>5, <3>1, <3>2
  <2> HIDE DEF q1, g, q, s
  <2>3. HolderTypes(q2, s2, a) /\ Balanced(ReleaseMiniport(ReleasePort(g, f), f), q2, s2, a)
    BY <1>1, <1>3, <2>1, ReleaseBothBalanced
  <2> QED BY <1>2, <1>5, <2>2, <2>3 DEF q, s, f, one, t
<1>6. CASE one = 0
  <2>1. q1 = q /\ m = s
    BY <1>1, <1>6
  <2> HIDE DEF q1, g, q, s
  <2> QED BY <1>2, <1>3, <1>6, <2>1 DEF q, s, f, one, t
<1> QED BY <1>1, <1>5, <1>6

\* The heap g counts what p and m say less what was given back of the filter f.
Takes(g, p, m, a, f, ports, miniports) ==
  \E q, s :
    /\ HolderTypes(q, s, a) /\ Balanced(g, q, s, a)
    /\ q[f] = p[f] - ports /\ s[f] = m[f] - miniports
    /\ \A e \in Filters : e # f => q[e] = p[e] /\ s[e] = m[e]

LEMMA TakesNothing ==
  ASSUME NEW h, NEW p, NEW m, NEW a, HolderTypes(p, m, a), Balanced(h, p, m, a),
         NEW f \in Filters
  PROVE  Takes(h, p, m, a, f, 0, 0)
<1>1. p[f] = p[f] - 0 /\ m[f] = m[f] - 0
  BY DEF HolderTypes
<1> QED BY <1>1 DEF Takes

LEMMA TakesBoth ==
  ASSUME NEW h, NEW p, NEW m, NEW a, HolderTypes(p, m, a), Balanced(h, p, m, a),
         NEW f \in Filters, p[f] > 0, m[f] > 0
  PROVE  /\ Takes(ReleaseMiniport(ReleasePort(h, f), f), p, m, a, f, 1, 1)
         /\ Takes(ReleasePort(ReleaseMiniport(h, f), f), p, m, a, f, 1, 1)
<1> DEFINE q == [p EXCEPT ![f] = p[f] - 1]
           s == [m EXCEPT ![f] = m[f] - 1]
<1>1. /\ q[f] = p[f] - 1 /\ s[f] = m[f] - 1
      /\ \A e \in Filters : e # f => q[e] = p[e] /\ s[e] = m[e]
  BY DEF HolderTypes
<1>2. /\ HolderTypes(q, s, a)
      /\ Balanced(ReleaseMiniport(ReleasePort(h, f), f), q, s, a)
      /\ Balanced(ReleasePort(ReleaseMiniport(h, f), f), q, s, a)
  BY ReleaseBothBalanced
<1> HIDE DEF q, s
<1> QED BY <1>1, <1>2 DEF Takes

LEMMA TakesPort ==
  ASSUME NEW h, NEW p, NEW m, NEW a, HolderTypes(p, m, a), Balanced(h, p, m, a),
         NEW f \in Filters, p[f] > 0
  PROVE  Takes(ReleasePort(h, f), p, m, a, f, 1, 0)
<1> DEFINE q == [p EXCEPT ![f] = p[f] - 1]
<1>1. /\ q[f] = p[f] - 1 /\ m[f] = m[f] - 0
      /\ \A e \in Filters : e # f => q[e] = p[e]
  BY DEF HolderTypes
<1>2. HolderTypes(q, m, a) /\ Balanced(ReleasePort(h, f), q, m, a)
  BY ReleasePortBalanced
<1> HIDE DEF q
<1> QED BY <1>1, <1>2 DEF Takes

LEMMA TakesDropped ==
  ASSUME NEW h, NEW p, NEW m, NEW a, HolderTypes(p, m, a), Balanced(h, p, m, a),
         NEW d \in Devices, NEW k \in Kinds, Filter(d, k) \in Filters,
         p[Filter(d, k)] > One(k \in cache[Latest(d)]),
         k \in cache[Latest(d)] => m[Filter(d, k)] > 0
  PROVE  Takes(RemoveCached(d, k, UnregisterSubdevice(d, k, h)), p, m, a, Filter(d, k),
               1 + One(k \in cache[Latest(d)]), One(k \in cache[Latest(d)]))
<1> DEFINE f == Filter(d, k)
           one == One(k \in cache[Latest(d)])
           q == [p EXCEPT ![f] = p[f] - (1 + one)]
           s == [m EXCEPT ![f] = m[f] - one]
           g == RemoveCached(d, k, UnregisterSubdevice(d, k, h))
<1>1. HolderTypes(q, s, a) /\ Balanced(g, q, s, a)
  BY DropBalanced
<1>2. /\ q[f] = p[f] - (1 + one) /\ s[f] = m[f] - one
      /\ \A e \in Filters : e # f => q[e] = p[e] /\ s[e] = m[e]
  BY DEF HolderTypes
<1> HIDE DEF f, one, q, s, g
<1>3. Takes(g, p, m, a, f, 1 + one, one)
  BY <1>1, <1>2 DEF Takes
<1> QED BY <1>3 DEF f, one, g

LEMMA UnwindHeap ==
  ASSUME LifeInv, NEW d \in Devices, Unwind(d), StartTouches(d)
  PROVE  Balanced(heap, PortHolders, MiniportHolders, AdapterHolders)'
<1> DEFINE x == Latest(d)
           gone == Unwound(d)
           out == start[d].out
           Left(k, h) == IF k \in gone THEN RemoveCached(d, k, UnregisterSubdevice(d, k, h))
                         ELSE h
           t == Filter(d, "topology")
           w == Filter(d, "wave")
           h1 == Left("topology", heap)
           h2 == Left("wave", h1)
           h3 == ReleaseOut(d, "topology", h2)
           h4 == ReleaseOut(d, "wave", h3)
           a == AdapterHolders
           Port(k) == IF k \in gone THEN 1 + One(k \in cache[x]) ELSE 0
           Mini(k) == IF k \in gone THEN One(k \in cache[x]) ELSE 0
<1>1. /\ StartOf(d) /\ AdapterTypes /\ start[d] \in StartType /\ x \in Adapters
      /\ t \in Filters /\ w \in Filters /\ t # w /\ t[1] = x /\ w[1] = x
      /\ t[2] = "topology" /\ w[2] = "wave" /\ start[d].step = "unwind"
      /\ "topology" \in Kinds /\ "wave" \in Kinds
  BY StartFacts DEF Unwind, At, Kinds
<1>2. /\ heap' = h4 /\ start'[d].out = {}
      /\ registered' = registered \ {Filter(d, k) : k \in gone}
      /\ cache' = [cache EXCEPT ![x] = cache[x] \ gone]
      /\ UNCHANGED <<children, powered, refused>>
  BY <1>1 DEF Unwind, Continue, AdapterTypes
<1>3. gone \subseteq out /\ out \subseteq Kinds
  BY <1>1 DEF Unwound, StartType
<1>4. \A k \in Kinds : k \in out => Filter(d, k) \in registered
  BY <1>1 DEF StartOf
<1> DEFINE p == PortHolders
           m == MiniportHolders
           Held(f, k) == /\ p[f] = One(f \in registered) + One(k \in cache[x]) + One(k \in out)
                                   + Users(f)
                         /\ m[f] = One(f \in children) + One(k \in cache[x]) + One(k \in out)
                                   + (IF k = "wave" THEN Users(f) ELSE 0)
                         /\ p[f] \in Nat /\ m[f] \in Nat /\ Users(f) \in Nat
                         /\ One(f \in children) \in {0, 1}
                         /\ One(k \in cache[x]) \in {0, 1} /\ One(k \in out) \in {0, 1}
                         /\ k \in out => f \in registered
<1>5. HolderTypes(p, m, a) /\ Balanced(heap, p, m, a)
  BY <1>1, HoldersType DEF LifeInv
<1>6. Held(t, "topology") /\ Held(w, "wave")
  BY <1>1, <1>4, <1>5, StartHolders, UsersType DEF HolderTypes, One
<1>7. /\ Port("topology") \in Nat /\ Mini("topology") \in Nat
      /\ Port("wave") \in Nat /\ Mini("wave") \in Nat
  BY DEF One
<1> HIDE DEF t, w, x, gone, out, p, m, a
<1>8. Takes(h1, p, m, a, t, Port("topology"), Mini("topology"))
  <2>1. CASE "topology" \in gone
    <3>1. /\ p[Filter(d, "topology")] > One("topology" \in cache[Latest(d)])
          /\ "topology" \in cache[Latest(d)] => m[Filter(d, "topology")] > 0
      BY <1>3, <1>6, <2>1 DEF One, t, x
    <3> QED BY <1>1, <1>5, <2>1, <3>1, TakesDropped DEF t, x
  <2>2. CASE "topology" \notin gone
    BY <1>1, <1>5, <2>2, TakesNothing
  <2> QED BY <2>1, <2>2
<1>9. PICK p1, m1 :
        /\ HolderTypes(p1, m1, a) /\ Balanced(h1, p1, m1, a)
        /\ p1[t] = p[t] - Port("topology") /\ m1[t] = m[t] - Mini("topology")
        /\ \A e \in Filters : e # t => p1[e] = p[e] /\ m1[e] = m[e]
  BY <1>8 DEF Takes
<1> HIDE DEF h1
<1>10. Takes(h2, p1, m1, a, w, Port("wave"), Mini("wave"))
  <2>1. CASE "wave" \in gone
    <3>1. p1[w] = p[w] /\ m1[w] = m[w]
      BY <1>1, <1>9
    <3>2. /\ p1[Filter(d, "wave")] > One("wave" \in cache[Latest(d)])
          /\ "wave" \in cache[Latest(d)] => m1[Filter(d, "wave")] > 0
      BY <1>3, <1>6, <2>1, <3>1 DEF One, w, x
    <3> QED BY <1>1, <1>9, <2>1, <3>2, TakesDropped DEF w, x
  <2>2. CASE "wave" \notin gone
    BY <1>1, <1>9, <2>2, TakesNothing
  <2> QED BY <2>1, <2>2
<1>11. PICK p2, m2 :
        /\ HolderTypes(p2, m2, a) /\ Balanced(h2, p2, m2, a)
        /\ p2[w] = p1[w] - Port("wave") /\ m2[w] = m1[w] - Mini("wave")
        /\ \A e \in Filters : e # w => p2[e] = p1[e] /\ m2[e] = m1[e]
  BY <1>10 DEF Takes
<1> HIDE DEF h2
<1>12. /\ p2[t] = p[t] - Port("topology") /\ m2[t] = m[t] - Mini("topology")
       /\ p2[w] = p[w] - Port("wave") /\ m2[w] = m[w] - Mini("wave")
  BY <1>1, <1>9, <1>11
<1>13. Takes(h3, p2, m2, a, t, One("topology" \in out), One("topology" \in out))
  <2>1. CASE "topology" \in out
    <3>1. p2[t] > 0 /\ m2[t] > 0
      BY <1>6, <1>12, <2>1 DEF One
    <3>2. h3 = ReleasePort(ReleaseMiniport(h2, t), t) /\ One("topology" \in out) = 1
      BY <2>1 DEF ReleaseOut, t, out, One
    <3> QED BY <1>1, <1>11, <3>1, <3>2, TakesBoth
  <2>2. CASE "topology" \notin out
    <3>1. h3 = h2 /\ One("topology" \in out) = 0
      BY <2>2 DEF ReleaseOut, t, out, One
    <3> QED BY <1>1, <1>11, <3>1, TakesNothing
  <2> QED BY <2>1, <2>2
<1>14. PICK p3, m3 :
        /\ HolderTypes(p3, m3, a) /\ Balanced(h3, p3, m3, a)
        /\ p3[t] = p2[t] - One("topology" \in out) /\ m3[t] = m2[t] - One("topology" \in out)
        /\ \A e \in Filters : e # t => p3[e] = p2[e] /\ m3[e] = m2[e]
  BY <1>13 DEF Takes
<1> HIDE DEF h3
<1>15. p3[w] = p[w] - Port("wave") /\ m3[w] = m[w] - Mini("wave")
  BY <1>1, <1>12, <1>14
<1>16. Takes(h4, p3, m3, a, w, One("wave" \in out), One("wave" \in out))
  <2>1. CASE "wave" \in out
    <3>1. p3[w] > 0 /\ m3[w] > 0
      BY <1>6, <1>15, <2>1 DEF One
    <3>2. h4 = ReleasePort(ReleaseMiniport(h3, w), w) /\ One("wave" \in out) = 1
      BY <2>1 DEF ReleaseOut, w, out, One
    <3> QED BY <1>1, <1>14, <3>1, <3>2, TakesBoth
  <2>2. CASE "wave" \notin out
    <3>1. h4 = h3 /\ One("wave" \in out) = 0
      BY <2>2 DEF ReleaseOut, w, out, One
    <3> QED BY <1>1, <1>14, <3>1, TakesNothing
  <2> QED BY <2>1, <2>2
<1>17. PICK p4, m4 :
        /\ HolderTypes(p4, m4, a) /\ Balanced(h4, p4, m4, a)
        /\ p4[w] = p3[w] - One("wave" \in out) /\ m4[w] = m3[w] - One("wave" \in out)
        /\ \A e \in Filters : e # w => p4[e] = p3[e] /\ m4[e] = m3[e]
  BY <1>16 DEF Takes
<1> HIDE DEF h4
<1>18. /\ p4[w] = p[w] - Port("wave") - One("wave" \in out)
       /\ m4[w] = m[w] - Mini("wave") - One("wave" \in out)
       /\ p4[t] = p[t] - Port("topology") - One("topology" \in out)
       /\ m4[t] = m[t] - Mini("topology") - One("topology" \in out)
       /\ \A e \in Filters : e # w /\ e # t => p4[e] = p[e] /\ m4[e] = m[e]
  BY <1>1, <1>9, <1>11, <1>12, <1>14, <1>15, <1>17
<1>19. /\ \A k \in Kinds : k \in cache'[x] <=> k \in cache[x] /\ k \notin gone
       /\ t \in registered' <=> t \in registered /\ "topology" \notin gone
       /\ w \in registered' <=> w \in registered /\ "wave" \notin gone
  <2>1. \A k \in Kinds : k \in cache'[x] <=> k \in cache[x] /\ k \notin gone
    BY <1>1, <1>2 DEF AdapterTypes
  <2>2. \A k, j : Filter(d, k) = Filter(d, j) => k = j
    BY DEF Filter
  <2> QED BY <1>2, <2>1, <2>2 DEF t, w
<1>20. ASSUME NEW e \in Filters
       PROVE  PortHolders[e]' = p4[e] /\ MiniportHolders[e]' = m4[e]
  <2>1. CASE e[1] # x
    BY <1>1, <1>18, <2>1, StartHolders DEF x, p, m
  <2>2. CASE e = t
    <3>1. /\ PortHolders[e]' = One(e \in registered')
               + (One("topology" \in cache'[x]) + One("topology" \in {})) + Users(e)
          /\ MiniportHolders[e]' = One(e \in children)
               + (One("topology" \in cache'[x]) + One("topology" \in {})) + 0
      BY <1>1, <1>2, <2>2, StartHolders DEF x
    <3> QED BY <1>1, <1>3, <1>6, <1>18, <1>19, <2>2, <3>1 DEF One
  <2>3. CASE e = w
    <3>1. /\ PortHolders[e]' = One(e \in registered')
               + (One("wave" \in cache'[x]) + One("wave" \in {})) + Users(e)
          /\ MiniportHolders[e]' = One(e \in children)
               + (One("wave" \in cache'[x]) + One("wave" \in {})) + Users(e)
      BY <1>1, <1>2, <2>3, StartHolders DEF x
    <3> QED BY <1>1, <1>3, <1>6, <1>18, <1>19, <2>3, <3>1 DEF One
  <2>4. e[1] = x => e = t \/ e = w
    BY <1>1, FilterParts DEF t, w, Kinds
  <2> QED BY <2>1, <2>2, <2>3, <2>4
<1>21. \A b \in Adapters : AdapterHolders[b]' = a[b]
  BY <1>2, StartHolders DEF a
<1> QED BY <1>2, <1>17, <1>20, <1>21, BalancedNext

LEMMA UnwindInv ==
  ASSUME LifeInv, NEW d \in Devices, Unwind(d)
  PROVE  LifeInv'
<1> DEFINE s == start[d]
           x == Latest(d)
           gone == Unwound(d)
<1>1. /\ StartOf(d) /\ StartTells(d) /\ s \in StartType /\ AdapterTypes
      /\ s.step = "unwind" /\ dev[d] = "starting" /\ x \in Adapters
      /\ \A k \in Kinds : Filter(d, k)[1] = x
  BY StartFacts DEF Unwind, At
<1>2. start' = [start EXCEPT ![d] = [step |-> "exit", ok |-> s.ok, out |-> {}]]
  BY DEF Unwind, Continue
<1>3. start'[d].step = "exit" /\ start'[d].ok = s.ok /\ start'[d].out = {}
  BY <1>1, <1>2 DEF AdapterTypes
<1>4. [step |-> "exit", ok |-> s.ok, out |-> {}] \in StartType
  BY <1>1 DEF StartType, Steps
<1>5. /\ registered' = registered \ {Filter(d, k) : k \in gone}
      /\ cache' = [cache EXCEPT ![x] = cache[x] \ gone]
      /\ UNCHANGED <<dev, starts, common, children, bridged, powered, leaving, handle, allocated,
                     refused>>
      /\ gone \subseteq Kinds /\ gone = IF s.ok THEN {} ELSE s.out
  BY <1>1 DEF Unwind, Unwound, StartType
<1> HIDE DEF gone
<1>6. StartTouches(d)
  <2>1. \E r \in StartType : r.step # "idle" /\ start' = [start EXCEPT ![d] = r]
    BY <1>2, <1>4
  <2>2. \A f \in Filters : f[1] # x => (f \in registered' <=> f \in registered)
    BY <1>1, <1>5
  <2>3. /\ cache' \in [Adapters -> SUBSET Kinds]
        /\ \A a \in Adapters : a # x => cache'[a] = cache[a]
    BY <1>1, <1>5 DEF AdapterTypes
  <2> QED BY <1>1, <1>5, <2>1, <2>2, <2>3 DEF StartTouches, AdapterTypes
<1>7. /\ \A k \in Kinds : k \in cache'[x] <=> k \in cache[x] /\ k \notin gone
      /\ \A k \in Kinds : Filter(d, k) \in registered' <=>
                            Filter(d, k) \in registered /\ k \notin gone
  <2>1. \A k, j : Filter(d, k) = Filter(d, j) => k = j
    BY DEF Filter
  <2>2. \A k \in Kinds : k \in cache'[x] <=> k \in cache[x] /\ k \notin gone
    BY <1>1, <1>5 DEF AdapterTypes
  <2> QED BY <1>5, <2>1, <2>2
<1>8. StartOf(d)'
  BY <1>3, <1>6, StartOfNext DEF Before
<1>9. StartTells(d)'
  <2>1. s.ok => Filter(d, "wave") \in registered'
    BY <1>1, <1>5, <1>7 DEF StartTells, StartOf, Kinds
  <2>2. ~s.ok => \A k \in Kinds : Filter(d, k) \notin registered' /\ k \notin cache'[x]
    BY <1>1, <1>5, <1>7 DEF StartTells
  <2>3. ~s.ok => x \notin bridged'
    BY <1>1, <1>5 DEF StartTells
  <2> QED BY <1>3, <1>6, <2>1, <2>2, <2>3, StartTellsNext DEF Before
<1>10. Balanced(heap, PortHolders, MiniportHolders, AdapterHolders)'
  BY <1>6, UnwindHeap
<1> QED BY <1>6, <1>8, <1>9, <1>10, StartStep DEF LifeInv, Balanced

LEMMA ExitStartHeap ==
  ASSUME LifeInv, NEW d \in Devices, ExitStart(d)
  PROVE  Balanced(heap, PortHolders, MiniportHolders, AdapterHolders)'
<1> DEFINE x == Latest(d)
           p == PortHolders
           m == MiniportHolders
           a == AdapterHolders
           q == [a EXCEPT ![x] = a[x] - 1]
           g == ReleaseAdapter(heap, x)
<1>1. /\ AdapterTypes /\ x \in Adapters /\ x[1] = d /\ dev[d] = "starting" /\ common[d] = 0
      /\ starts[d] > 0 /\ x[2] = starts[d] /\ start[d].out = {} /\ x[2] # 0
  BY StartFacts, LatestParts DEF ExitStart, At, StartOf, AdapterTypes
<1>2. /\ heap' = g /\ common'[d] = starts[d] /\ dev'[d] # "starting"
      /\ start'[d].out = {}
      /\ \A e \in Devices : e # d => /\ common'[e] = common[e] /\ dev'[e] = dev[e]
                                     /\ start'[e] = start[e]
      /\ UNCHANGED <<starts, cache, registered, children, powered, handle, refused>>
  BY <1>1 DEF ExitStart, Continue, AdapterTypes
<1>3. /\ \A e \in Devices : Latest(e)' = Latest(e)
      /\ \A f : Users(f)' = Users(f)
  BY <1>2 DEF Latest, Users, Opened
<1>4. /\ HolderTypes(PortHolders, MiniportHolders, a)
      /\ Balanced(heap, PortHolders, MiniportHolders, a)
  BY <1>1, HoldersType DEF LifeInv
<1>5. \A f \in Filters :
        PortHolders[f]' = PortHolders[f] /\ MiniportHolders[f]' = MiniportHolders[f]
  <2> TAKE f \in Filters
  <2>1. f[1] \in Adapters /\ f[1][1] \in Devices
    BY FilterParts
  <2>2. /\ f \in registered' <=> f \in registered
        /\ f \in children' <=> f \in children
        /\ Cached(f)' <=> Cached(f)
    BY <1>2 DEF Cached
  <2>3. Out(f)' <=> Out(f)
    BY <1>1, <1>2, <1>3, <2>1 DEF Out
  <2> QED BY <1>3, <2>2, <2>3 DEF PortHolders, MiniportHolders, One
<1>6. ASSUME NEW b \in Adapters, b = x
      PROVE  a[b] = 2 + One(b \in powered) /\ AdapterHolders[b]' = 1 + One(b \in powered)
  <2>1. b[1] = d /\ b[2] = starts[d] /\ b[2] # 0
    BY <1>1, <1>6
  <2>2. Starting(b) /\ ~Starting(b)' /\ common[b[1]] # b[2] /\ common'[b[1]] = b[2]
    BY <1>1, <1>2, <1>6, <2>1 DEF Starting
  <2>3. powered' = powered
    BY <1>2
  <2> QED BY <2>2, <2>3 DEF AdapterHolders, One
<1>7. ASSUME NEW b \in Adapters, b # x
      PROVE  AdapterHolders[b]' = a[b]
  <2>1. b[1] \in Devices
    BY AdapterParts
  <2>2. Starting(b)' <=> Starting(b)
    BY <1>1, <1>2, <1>3, <1>7, <2>1 DEF Starting
  <2>3. common'[b[1]] = b[2] <=> common[b[1]] = b[2]
    BY <1>1, <1>2, <1>7, <2>1, AdapterParts, LatestParts
  <2>4. powered' = powered
    BY <1>2
  <2> QED BY <2>2, <2>3, <2>4 DEF AdapterHolders, One
<1>8. a[x] > 0 /\ \A b \in Adapters : AdapterHolders[b]' = q[b]
  <2>1. a \in [Adapters -> Nat]
    BY <1>4 DEF HolderTypes
  <2>2. a[x] = 2 + One(x \in powered) /\ One(x \in powered) \in Nat
    BY <1>1, <1>6 DEF One
  <2>3. q[x] = a[x] - 1 /\ \A b \in Adapters : b # x => q[b] = a[b]
    BY <1>1, <2>1
  <2> HIDE DEF x, q, a
  <2>4. ASSUME NEW b \in Adapters PROVE AdapterHolders[b]' = q[b]
    <3>1. CASE b = x
      <4>1. AdapterHolders[b]' = 1 + One(b \in powered)
        BY <1>6, <3>1
      <4> QED BY <2>2, <2>3, <3>1, <4>1
    <3>2. CASE b # x
      BY <1>7, <2>3, <3>2
    <3> QED BY <3>1, <3>2
  <2> QED BY <2>2, <2>4
<1>9. HolderTypes(PortHolders, MiniportHolders, q)
      /\ Balanced(g, PortHolders, MiniportHolders, q)
  BY <1>1, <1>4, <1>8, ReleaseAdapterBalanced DEF q, g, p, m
<1>10. heap' = g /\ refused' = refused
  BY <1>2
<1>11. \A f \in Filters : PortHolders[f]' = p[f] /\ MiniportHolders[f]' = m[f]
  BY <1>5 DEF p, m
<1>12. \A b \in Adapters : AdapterHolders[b]' = q[b]
  BY <1>8
<1>13. PICK p1, m1, a1, g1 : p1 = p /\ m1 = m /\ a1 = q /\ g1 = g
  OBVIOUS
<1>14. HolderTypes(p1, m1, a1) /\ Balanced(g1, p1, m1, a1) /\ heap' = g1
  BY <1>9, <1>10, <1>13
<1>15. /\ \A f \in Filters : PortHolders[f]' = p1[f] /\ MiniportHolders[f]' = m1[f]
       /\ \A b \in Adapters : AdapterHolders[b]' = a1[b]
  BY <1>11, <1>12, <1>13
<1> QED BY <1>10, <1>14, <1>15, BalancedNext

LEMMA ExitStartInv ==
  ASSUME LifeInv, NEW d \in Devices, ExitStart(d)
  PROVE  LifeInv'
<1> DEFINE x == Latest(d)
<1>1. /\ AdapterTypes /\ StartOf(d) /\ StartTells(d) /\ start[d].step = "exit"
      /\ x \in Adapters /\ x[1] = d /\ dev[d] = "starting" /\ common[d] = 0
      /\ starts[d] > 0 /\ x[2] = starts[d] /\ start[d].ok \in BOOLEAN
  BY StartFacts, LatestParts DEF ExitStart, At, StartType
<1>2. /\ common' = [common EXCEPT ![d] = starts[d]]
      /\ dev' = [dev EXCEPT ![d] = IF start[d].ok THEN "started" ELSE "failed"]
      /\ start' = [start EXCEPT ![d] = [step |-> "idle", ok |-> TRUE, out |-> {}]]
      /\ UNCHANGED <<starts, cache, registered, children, bridged, powered, leaving, handle, allocated,
                     refused>>
  BY DEF ExitStart, Continue
<1>3. /\ common'[d] = starts[d] /\ start'[d].step = "idle" /\ start'[d].out = {}
      /\ dev'[d] = IF start[d].ok THEN "started" ELSE "failed"
      /\ \A e \in Devices : e # d => /\ common'[e] = common[e] /\ dev'[e] = dev[e]
                                     /\ start'[e] = start[e]
  BY <1>1, <1>2 DEF AdapterTypes
<1>4. /\ \A e \in Devices : Latest(e)' = Latest(e) /\ \A k : Filter(e, k)' = Filter(e, k)
      /\ \A f : Opened(f)' = Opened(f)
  BY <1>2 DEF Latest, Filter, Opened
<1>5. \A f : Untouched(f)' <=> Untouched(f)
  BY <1>2, <1>4 DEF Untouched, Cached
<1>6. Balanced(heap, PortHolders, MiniportHolders, AdapterHolders)'
  BY ExitStartHeap
<1>7. AdapterTypes'
  <2>1. [step |-> "idle", ok |-> TRUE, out |-> {}] \in StartType
    BY DEF StartType, Steps
  <2>2. start' \in [Devices -> StartType]
    BY <1>1, <1>2, <2>1 DEF AdapterTypes, StartType
  <2>3. common' \in [Devices -> 0..MaxStarts]
    BY <1>1, <1>2 DEF AdapterTypes
  <2>4. dev' \in [Devices -> {"added", "starting", "started", "stopped", "lost", "failed",
                              "removed"}]
    BY <1>1, <1>2 DEF AdapterTypes
  <2>5. heap' \in HeapType
    BY <1>6 DEF Balanced
  <2> QED BY <1>1, <1>2, <2>2, <2>3, <2>4, <2>5 DEF AdapterTypes, StartType
<1>8. ASSUME NEW e \in Devices PROVE StartOf(e)' /\ StartTells(e)'
  <2>1. CASE e # d
    BY <1>2, <1>3, <1>4, <1>5, <2>1, StartStands
  <2>2. CASE e = d
    <3>1. StartOf(d)'
      BY <1>3 DEF StartOf
    <3>2. start[d].ok => Filter(d, "wave") \in registered
      BY <1>1 DEF StartTells
    <3>3. ~start[d].ok => x \notin bridged
      BY <1>1 DEF StartTells
    <3>4. ~start[d].ok =>
            \A k \in Kinds : Filter(d, k) \notin registered /\ k \notin cache[x]
      BY <1>1 DEF StartTells
    <3>5. StartTells(d)'
      <4>1. dev'[d] = "failed" => ~start[d].ok
        BY <1>1, <1>3
      <4>2. dev'[d] = "started" => start[d].ok
        BY <1>1, <1>3
      <4>3. /\ Latest(d)' = x /\ \A k : Filter(d, k)' = Filter(d, k)
            /\ registered' = registered /\ cache' = cache /\ bridged' = bridged
            /\ start'[d].step = "idle"
        BY <1>2, <1>3, <1>4
      <4>4. dev'[d] = "failed" =>
              /\ x \notin bridged
              /\ \A k \in Kinds : Filter(d, k) \notin registered /\ k \notin cache[x]
        BY <3>3, <3>4, <4>1
      <4>5. dev'[d] = "started" => Filter(d, "wave") \in registered
        BY <3>2, <4>2
      <4> HIDE DEF x
      <4> QED BY <4>3, <4>4, <4>5 DEF StartTells, Before
    <3> QED BY <2>2, <3>1, <3>5
  <2> QED BY <2>1, <2>2
<1>9. \A a \in Adapters : Owned(a)' <=> Owned(a)
  <2> TAKE a \in Adapters
  <2>1. a[1] \in Devices
    BY AdapterParts
  <2>2. CASE a[1] = d
    BY <1>1, <1>3, <1>4, <2>2 DEF Owned, AdapterTypes
  <2>3. CASE a[1] # d
    BY <1>3, <1>4, <2>1, <2>3 DEF Owned
  <2> QED BY <2>2, <2>3
<1>10. Owners'
  <2>1. \A e \in Devices :
          /\ common'[e] # 0 => common'[e] = starts'[e] /\ dev'[e] \in {"started", "failed"}
          /\ dev'[e] = "started" => common'[e] # 0
    BY <1>1, <1>2, <1>3 DEF LifeInv, Owners, AdapterTypes
  <2>2. \A a \in Adapters :
          /\ Owned(a)' => a \notin leaving'
          /\ cache'[a] # {} => Owned(a)'
          /\ a \in powered' \/ (\E k \in Kinds : <<a, k>> \in registered') =>
               Owned(a)' \/ a \in leaving'
    BY <1>2, <1>9 DEF LifeInv, Owners
  <2>3. \A a \in Adapters : a[2] > starts'[a[1]] =>
            /\ a \notin powered' /\ a \notin leaving' /\ a \notin bridged' /\ cache'[a] = {}
            /\ \A k \in Kinds : Untouched(<<a, k>>)'
    BY <1>2, <1>5 DEF LifeInv, Owners
  <2>4. registered' \subseteq children'
    BY <1>2 DEF LifeInv, Owners
  <2> QED BY <2>1, <2>2, <2>3, <2>4 DEF Owners
<1>11. Streams'
  BY <1>2, <1>4 DEF LifeInv, Streams, Users
<1> QED BY <1>6, <1>7, <1>8, <1>10, <1>11 DEF LifeInv

LEMMA NewAdapterCommonInv ==
  ASSUME LifeInv, NEW d \in Devices, NEW allocates \in BOOLEAN,
         NewAdapterCommon(d, allocates)
  PROVE  LifeInv'
<1>1. PICK n : n = starts[d] + 1
  OBVIOUS
<1> DEFINE new == <<d, n>>
           Begun == dev'[d] = "starting"
           p == PortHolders
           m == MiniportHolders
           a == AdapterHolders
<1>2. /\ AdapterTypes /\ dev[d] \in {"added", "stopped"} /\ common[d] = 0
      /\ start[d].step = "idle" /\ start[d].out = {} /\ start[d] \in StartType
      /\ heap \in HeapType /\ starts[d] \in Nat /\ n \in 1..MaxStarts /\ new \in Adapters
  <2>1. AdapterTypes /\ StartOf(d) /\ Owners /\ heap \in HeapType
    BY DEF LifeInv, Balanced
  <2>2. dev[d] \in {"added", "stopped"} /\ starts[d] < MaxStarts
    BY DEF NewAdapterCommon
  <2>3. start[d].step = "idle"
    BY <2>1, <2>2 DEF StartOf
  <2>4. common[d] = 0
    BY <2>1, <2>2 DEF Owners
  <2>5. starts[d] \in Nat /\ n \in 1..MaxStarts
    BY <1>1, <2>1, <2>2, AdapterAssumption DEF AdapterTypes
  <2> QED BY <2>1, <2>2, <2>3, <2>4, <2>5 DEF StartOf, AdapterTypes, Adapters, StartType
<1>3. /\ UNCHANGED <<common, cache, registered, children, bridged, powered, leaving, handle, allocated>>
      /\ \A e \in Devices : e # d => /\ dev'[e] = dev[e] /\ start'[e] = start[e]
                                     /\ starts'[e] = starts[e]
  BY <1>2 DEF NewAdapterCommon, Continue, AdapterTypes
<1>4. \/ /\ dev'[d] = "failed" /\ starts' = starts /\ start' = start
         /\ heap' = heap /\ refused' = refused
      \/ /\ dev'[d] = "failed" /\ starts'[d] = n /\ start' = start /\ heap.instances = 0
         /\ heap' = [heap EXCEPT !.instances = 1] /\ refused' = refused + 1
      \/ /\ dev'[d] = "starting" /\ starts'[d] = n /\ heap.instances = 0
         /\ start' = [start EXCEPT ![d] = [step |-> "init", ok |-> TRUE, out |-> {}]]
         /\ heap' = [heap EXCEPT !.instances = 1, !.adapter[new] = 2] /\ refused' = refused
  BY <1>1, <1>2 DEF NewAdapterCommon, Continue, AdapterTypes
<1>5. /\ start'[d].out = {} /\ (~Begun => start'[d].step = "idle")
      /\ (Begun => start'[d].step = "init" /\ starts'[d] = n)
      /\ starts'[d] \in {starts[d], n} /\ dev'[d] \in {"starting", "failed"}
  BY <1>2, <1>4 DEF AdapterTypes
<1> DEFINE one == [heap.adapter EXCEPT ![new] = 2]
<1>6. /\ heap'.port = heap.port /\ heap'.miniport = heap.miniport
      /\ heap'.adapter = IF Begun THEN one ELSE heap.adapter
      /\ heap'.instances \in Nat /\ heap' \in HeapType
      /\ \/ heap' = heap /\ refused' = refused
         \/ heap.instances = 0 /\ heap'.instances = 1
      /\ refused' = refused \/ (refused' = refused + 1 /\ ~Begun /\ heap.instances = 0)
  <2>1. one \in [Adapters -> Nat]
    BY <1>2 DEF HeapType
  <2> HIDE DEF one
  <2>2. CASE ~Begun /\ heap' = heap /\ refused' = refused
    BY <1>2, <2>2 DEF HeapType
  <2>3. CASE /\ ~Begun /\ heap' = [heap EXCEPT !.instances = 1]
             /\ heap.instances = 0 /\ refused' = refused + 1
    <3>1. heap' \in HeapType /\ heap'.instances = 1
      BY <1>2, <2>3 DEF HeapType
    <3>2. heap'.port = heap.port /\ heap'.miniport = heap.miniport
          /\ heap'.adapter = heap.adapter
      BY <1>2, <2>3 DEF HeapType
    <3> QED BY <2>3, <3>1, <3>2
  <2>4. CASE /\ Begun /\ heap' = [heap EXCEPT !.instances = 1, !.adapter = one]
             /\ heap.instances = 0 /\ refused' = refused
    <3>1. heap' \in HeapType /\ heap'.instances = 1
      BY <1>2, <2>1, <2>4 DEF HeapType
    <3>2. heap'.port = heap.port /\ heap'.miniport = heap.miniport /\ heap'.adapter = one
      BY <1>2, <2>1, <2>4 DEF HeapType
    <3> QED BY <2>4, <3>1, <3>2
  <2>5. \/ ~Begun /\ heap' = heap /\ refused' = refused
        \/ /\ ~Begun /\ heap' = [heap EXCEPT !.instances = 1]
           /\ heap.instances = 0 /\ refused' = refused + 1
        \/ /\ Begun /\ heap' = [heap EXCEPT !.instances = 1, !.adapter = one]
           /\ heap.instances = 0 /\ refused' = refused
    BY <1>4 DEF one
  <2> QED BY <2>2, <2>3, <2>4, <2>5
<1> HIDE DEF Begun
<1>7. /\ \A e \in Devices : e # d =>
           Latest(e)' = Latest(e) /\ \A k : Filter(e, k)' = Filter(e, k)
      /\ \A f : Opened(f)' = Opened(f)
      /\ Begun => Latest(d)' = new /\ \A k : Filter(d, k)' = <<new, k>>
  BY <1>3, <1>5 DEF Latest, Filter, Opened
<1>8. \A f : Untouched(f)' <=> Untouched(f)
  BY <1>3, <1>7 DEF Untouched, Cached
<1>9. /\ new \notin powered /\ new \notin leaving /\ new \notin bridged /\ cache[new] = {}
      /\ \A k \in Kinds : Untouched(<<new, k>>)
  <2>1. new[2] > starts[new[1]]
    BY <1>1, <1>2
  <2> QED BY <1>2, <2>1 DEF LifeInv, Owners
<1>10. AdapterTypes'
  <2>1. start' \in [Devices -> StartType]
    <3>1. [step |-> "init", ok |-> TRUE, out |-> {}] \in StartType
      BY DEF StartType, Steps
    <3>2. start \in [Devices -> StartType]
      BY <1>2 DEF AdapterTypes, StartType
    <3> QED BY <1>2, <1>4, <3>1, <3>2
  <2>2. starts' \in [Devices -> 0..MaxStarts]
    <3>1. starts' = starts \/ starts' = [starts EXCEPT ![d] = n]
      BY <1>1 DEF NewAdapterCommon
    <3> QED BY <1>2, <3>1 DEF AdapterTypes
  <2>3. dev' \in [Devices -> {"added", "starting", "started", "stopped", "lost", "failed",
                              "removed"}]
    <3>1. \/ dev' = [dev EXCEPT ![d] = "starting"]
          \/ dev' = [dev EXCEPT ![d] = "failed"]
      BY DEF NewAdapterCommon
    <3> QED BY <1>2, <3>1 DEF AdapterTypes
  <2>4. refused' \in {0, 1}
    <3>1. Instances(heap) /\ refused \in {0, 1}
      BY <1>2 DEF LifeInv, Balanced, AdapterTypes
    <3> QED BY <1>6, <3>1 DEF Instances
  <2> QED BY <1>2, <1>3, <1>6, <2>1, <2>2, <2>3, <2>4 DEF AdapterTypes, StartType
<1>11. ASSUME NEW f \in Filters
      PROVE  PortHolders[f]' = p[f] /\ MiniportHolders[f]' = m[f]
  <2>1. f[1] \in Adapters /\ f[1][1] \in Devices
    BY FilterParts
  <2>2. /\ f \in registered' <=> f \in registered
        /\ f \in children' <=> f \in children
        /\ Cached(f)' <=> Cached(f)
        /\ Users(f)' = Users(f)
    BY <1>3, <1>7 DEF Cached, Users
  <2>3. Out(f)' <=> Out(f)
    BY <1>2, <1>3, <1>5, <1>7, <2>1 DEF Out
  <2> QED BY <2>2, <2>3 DEF PortHolders, MiniportHolders, One
<1>12. ASSUME NEW b \in Adapters
       PROVE  /\ Begun /\ b = new => AdapterHolders[b]' = 2 /\ a[b] = 0
              /\ ~(Begun /\ b = new) => AdapterHolders[b]' = a[b]
  <2>1. b[1] \in Devices /\ b[2] # 0 /\ b = <<b[1], b[2]>>
    BY AdapterParts
  <2>2. Begun /\ b = new => Starting(b)' /\ ~Starting(b) /\ b[1] = d /\ b \notin powered
    BY <1>2, <1>7, <1>9 DEF Starting, Begun
  <2>3. ~(Begun /\ b = new) => (Starting(b)' <=> Starting(b))
    BY <1>2, <1>3, <1>5, <1>7, <2>1 DEF Starting, Begun
  <2>4. common' = common /\ powered' = powered
    BY <1>3
  <2> QED BY <1>2, <2>1, <2>2, <2>3, <2>4 DEF AdapterHolders, One
<1>13. Balanced(heap, p, m, a) /\ HolderTypes(p, m, a)
  BY <1>2, HoldersType DEF LifeInv
<1>14. Counts(heap, PortHolders, MiniportHolders, AdapterHolders)'
  <2>1. heap'.port = heap.port /\ heap'.miniport = heap.miniport
    BY <1>6
  <2>2. \A f \in Filters :
          heap'.port[f] = PortHolders[f]' + One(heap'.miniport[f] > 0)
    BY <1>11, <1>13, <2>1 DEF Balanced, Counts
  <2>3. \A f \in Filters : heap'.miniport[f] = MiniportHolders[f]'
    BY <1>11, <1>13, <2>1 DEF Balanced, Counts
  <2>4. ASSUME NEW b \in Adapters
        PROVE  heap'.adapter[b] = AdapterHolders[b]' + One(heap'.miniport[Topology(b)] > 0)
    <3>1. heap.adapter[b] = a[b] + One(heap.miniport[Topology(b)] > 0) /\ a[b] \in Nat
      BY <1>13 DEF Balanced, Counts, HolderTypes
    <3>2. CASE Begun /\ b = new
      <4>1. heap'.adapter[b] = 2 /\ heap.instances = 0 /\ heap.adapter[b] = 0
        <5>1. heap.instances = 0 /\ heap'.adapter[b] = 2
          BY <1>2, <1>4, <1>6, <3>2 DEF HeapType, Begun
        <5>2. Instances(heap)
          BY <1>13 DEF Balanced
        <5> QED BY <5>1, <5>2 DEF Instances
      <4>2. ~(heap.miniport[Topology(b)] > 0)
        BY <3>1, <4>1 DEF One
      <4> QED BY <1>12, <2>1, <3>2, <4>1, <4>2 DEF One
    <3>3. CASE ~(Begun /\ b = new)
      <4>1. heap'.adapter[b] = heap.adapter[b]
        BY <1>2, <1>6, <3>3 DEF HeapType
      <4> QED BY <1>12, <2>1, <3>1, <3>3, <4>1
    <3> QED BY <3>2, <3>3
  <2> QED BY <2>2, <2>3, <2>4, AdapterParts DEF Counts, One
<1>15. Instances(heap)'
  <2>1. Instances(heap)
    BY <1>13 DEF Balanced
  <2>2. CASE heap' = heap /\ refused' = refused
    BY <2>1, <2>2 DEF Instances
  <2>3. CASE heap.instances = 0 /\ heap'.instances = 1
    <3>1. refused = 0 /\ \A b \in Adapters : heap.adapter[b] = 0
      BY <2>1, <2>3 DEF Instances
    <3>2. CASE ~Begun /\ refused' = refused + 1
      BY <1>6, <2>3, <3>1, <3>2 DEF Instances
    <3>3. CASE Begun
      <4>1. one[new] = 2 /\ \A b \in Adapters \ {new} : one[b] = 0
        BY <1>2, <3>1 DEF HeapType
      <4> HIDE DEF one, new
      <4>2. heap'.adapter[new] > 0 /\ \A b \in Adapters \ {new} : heap'.adapter[b] = 0
        BY <1>6, <3>3, <4>1
      <4> QED BY <1>2, <1>6, <2>3, <3>1, <3>3, <4>2 DEF Instances
    <3> QED BY <1>4, <1>6, <2>2, <3>2, <3>3 DEF Begun
  <2> QED BY <1>6, <2>2, <2>3
<1>16. Balanced(heap, PortHolders, MiniportHolders, AdapterHolders)'
  BY <1>6, <1>14, <1>15 DEF Balanced
<1>17. ASSUME NEW e \in Devices PROVE StartOf(e)' /\ StartTells(e)'
  <2>1. CASE e # d
    BY <1>3, <1>7, <1>8, <2>1, StartStands
  <2>2. CASE e = d /\ ~Begun
    BY <1>2, <1>3, <1>5, <2>2 DEF StartOf, StartTells, Before, Begun
  <2>3. CASE e = d /\ Begun
    <3>1. /\ start'[d].step = "init" /\ start'[d].out = {} /\ dev'[d] = "starting"
          /\ starts'[d] = n /\ n > 0 /\ common'[d] = 0
      BY <1>2, <1>3, <1>5, <2>3 DEF Begun
    <3>2. /\ Latest(d)' = new /\ \A k : Filter(d, k)' = <<new, k>>
          /\ new \notin powered' /\ new \notin bridged' /\ cache'[new] = {}
          /\ \A k \in Kinds : Untouched(<<new, k>>)'
      BY <1>3, <1>7, <1>8, <1>9, <2>3
    <3>3. \A k \in Kinds : <<new, k>> \notin registered'
      BY <1>3, <1>9 DEF Untouched
    <3> HIDE DEF new
    <3>4. StartOf(d)'
      BY <3>1, <3>2 DEF StartOf
    <3>5. StartTells(d)'
      BY <3>1, <3>2, <3>3 DEF StartTells
    <3> QED BY <2>3, <3>4, <3>5
  <2> QED BY <2>1, <2>2, <2>3
<1>18. ASSUME NEW b \in Adapters
       PROVE  /\ Begun /\ b = new => Owned(b)'
              /\ ~(Begun /\ b = new) => (Owned(b)' <=> Owned(b))
  <2>1. b[1] \in Devices /\ b = <<b[1], b[2]>>
    BY AdapterParts
  <2> QED BY <1>2, <1>3, <1>5, <1>7, <2>1 DEF Owned, Begun
<1>19. Owners'
  <2>1. \A e \in Devices :
          /\ common'[e] # 0 => common'[e] = starts'[e] /\ dev'[e] \in {"started", "failed"}
          /\ dev'[e] = "started" => common'[e] # 0
    BY <1>2, <1>3, <1>5 DEF LifeInv, Owners
  <2>2. \A b \in Adapters :
          /\ Owned(b)' => b \notin leaving'
          /\ cache'[b] # {} => Owned(b)'
          /\ b \in powered' \/ (\E k \in Kinds : <<b, k>> \in registered') =>
               Owned(b)' \/ b \in leaving'
    BY <1>3, <1>9, <1>18 DEF LifeInv, Owners
  <2>3. ASSUME NEW b \in Adapters, b[2] > starts'[b[1]]
        PROVE  /\ b \notin powered' /\ b \notin leaving' /\ b \notin bridged' /\ cache'[b] = {}
               /\ \A k \in Kinds : Untouched(<<b, k>>)'
    <3>1. b[1] \in Devices /\ b[2] \in Nat
      BY AdapterParts
    <3>2. b[2] > starts[b[1]]
      BY <1>1, <1>2, <1>3, <1>5, <2>3, <3>1
    <3> QED BY <1>3, <1>8, <3>2 DEF LifeInv, Owners
  <2>4. registered' \subseteq children'
    BY <1>3 DEF LifeInv, Owners
  <2> QED BY <2>1, <2>2, <2>3, <2>4 DEF Owners
<1>20. Streams'
  BY <1>3, <1>7 DEF LifeInv, Streams, Users
<1> QED BY <1>10, <1>16, <1>17, <1>19, <1>20 DEF LifeInv

----------------------------------------------------------------------------
(* PnpHandler and PortCls.                                                 *)

\* Emptying the cache gives back what it held, and nothing else.
LEMMA EmptyCacheTakes ==
  ASSUME NEW h, NEW p, NEW m, NEW a, HolderTypes(p, m, a), Balanced(h, p, m, a),
         NEW x \in Adapters,
         \A k \in Kinds : k \in cache[x] => p[<<x, k>>] > 0 /\ m[<<x, k>>] > 0
  PROVE  \E q, s :
           /\ HolderTypes(q, s, a) /\ Balanced(EmptyCache(h, x), q, s, a)
           /\ \A f \in Filters : /\ q[f] = p[f] - One(f[1] = x /\ f[2] \in cache[x])
                                 /\ s[f] = m[f] - One(f[1] = x /\ f[2] \in cache[x])
<1> DEFINE t == <<x, "topology">>
           w == <<x, "wave">>
           nt == One("topology" \in cache[x])
           nw == One("wave" \in cache[x])
           g == IF "topology" \in cache[x] THEN ReleaseMiniport(ReleasePort(h, t), t) ELSE h
           e == IF "wave" \in cache[x] THEN ReleaseMiniport(ReleasePort(g, w), w) ELSE g
<1>1. /\ t \in Filters /\ w \in Filters /\ t # w /\ t[1] = x /\ w[1] = x
      /\ t[2] = "topology" /\ w[2] = "wave" /\ "topology" \in Kinds /\ "wave" \in Kinds
      /\ \A f \in Filters : f[1] = x => f = t \/ f = w
  BY AdapterParts, FilterParts DEF Kinds
<1>2. EmptyCache(h, x) = e
  BY DEF EmptyCache
<1>3. Takes(g, p, m, a, t, nt, nt)
  <2>1. CASE "topology" \in cache[x]
    BY <1>1, <2>1, TakesBoth DEF One
  <2>2. CASE "topology" \notin cache[x]
    BY <1>1, <2>2, TakesNothing DEF One
  <2> QED BY <2>1, <2>2
<1> HIDE DEF t, g
<1>4. PICK p1, m1 :
        /\ HolderTypes(p1, m1, a) /\ Balanced(g, p1, m1, a)
        /\ p1[t] = p[t] - nt /\ m1[t] = m[t] - nt
        /\ \A f \in Filters : f # t => p1[f] = p[f] /\ m1[f] = m[f]
  BY <1>3 DEF Takes
<1>5. Takes(e, p1, m1, a, w, nw, nw)
  <2>1. CASE "wave" \in cache[x]
    <3>1. p1[w] > 0 /\ m1[w] > 0
      BY <1>1, <1>4, <2>1
    <3> HIDE DEF w
    <3> QED BY <1>1, <1>4, <2>1, <3>1, TakesBoth DEF One
  <2>2. CASE "wave" \notin cache[x]
    BY <1>1, <1>4, <2>2, TakesNothing DEF One
  <2> QED BY <2>1, <2>2
<1> HIDE DEF w, e
<1>6. PICK q, s :
        /\ HolderTypes(q, s, a) /\ Balanced(e, q, s, a)
        /\ q[w] = p1[w] - nw /\ s[w] = m1[w] - nw
        /\ \A f \in Filters : f # w => q[f] = p1[f] /\ s[f] = m1[f]
  BY <1>5 DEF Takes
<1>7. ASSUME NEW f \in Filters
      PROVE  /\ q[f] = p[f] - One(f[1] = x /\ f[2] \in cache[x])
             /\ s[f] = m[f] - One(f[1] = x /\ f[2] \in cache[x])
  <2>1. CASE f = t
    BY <1>1, <1>4, <1>6, <2>1 DEF One
  <2>2. CASE f = w
    BY <1>1, <1>4, <1>6, <2>2 DEF One
  <2>3. CASE f # t /\ f # w
    <3>1. q[f] = p[f] /\ s[f] = m[f] /\ f[1] # x
      BY <1>1, <1>4, <1>6, <2>3
    <3>2. p[f] \in Nat /\ m[f] \in Nat
      BY DEF HolderTypes
    <3> QED BY <3>1, <3>2 DEF One
  <2> QED BY <2>1, <2>2, <2>3
<1> QED BY <1>2, <1>6, <1>7

LEMMA PnpHandlerInv ==
  ASSUME LifeInv, NEW d \in Devices, NEW irp \in {"stopped", "lost", "removed"},
         PnpHandler(d, irp)
  PROVE  LifeInv'
<1>1. PICK x : x = <<d, common[d]>>
  OBVIOUS
<1> DEFINE Had == common[d] # 0
<1>2. /\ AdapterTypes /\ StartOf(d) /\ dev[d] # "starting" /\ start[d].step = "idle"
      /\ start[d].out = {} /\ start[d] \in StartType
      /\ Had => x \in Adapters /\ x = Latest(d) /\ x[1] = d /\ x[2] = starts[d]
                /\ common[d] = starts[d] /\ starts[d] > 0 /\ Owned(x)
  <2>1. AdapterTypes /\ StartOf(d) /\ Owners
    BY DEF LifeInv
  <2>2. dev[d] # "starting"
    BY DEF PnpHandler, May
  <2>3. Had => common[d] = starts[d] /\ starts[d] > 0
    BY <2>1 DEF Owners, AdapterTypes
  <2>4. Had => x \in Adapters /\ x = Latest(d) /\ x[1] = d /\ x[2] = starts[d]
    BY <1>1, <2>1, <2>3, LatestParts DEF Latest
  <2>5. start[d].step = "idle" /\ start[d].out = {} /\ start[d] \in StartType
    BY <2>1, <2>2 DEF StartOf, AdapterTypes, StartType
  <2> QED BY <2>1, <2>2, <2>3, <2>4, <2>5 DEF Owned
<1>3. /\ UNCHANGED <<starts, start, registered, children, bridged, powered, handle, allocated, refused>>
      /\ dev' = [dev EXCEPT ![d] = irp]
      /\ Had => /\ heap' = ReleaseAdapter(EmptyCache(heap, x), x)
                /\ cache' = [cache EXCEPT ![x] = {}]
                /\ leaving' = leaving \union {x}
                /\ common' = [common EXCEPT ![d] = 0]
      /\ ~Had => UNCHANGED <<heap, cache, leaving, common>>
  BY <1>1 DEF PnpHandler, PnpCommon
<1>4. /\ dev'[d] = irp /\ common'[d] = 0
      /\ \A e \in Devices : e # d => dev'[e] = dev[e] /\ common'[e] = common[e]
      /\ \A b \in Adapters : cache'[b] = IF Had /\ b = x THEN {} ELSE cache[b]
  BY <1>2, <1>3 DEF AdapterTypes
<1> HIDE DEF Had
<1>5. /\ \A e \in Devices : Latest(e)' = Latest(e) /\ \A k : Filter(e, k)' = Filter(e, k)
      /\ \A f : Opened(f)' = Opened(f)
  BY <1>3 DEF Latest, Filter, Opened
<1>6. \A f \in Filters : /\ Cached(f)' => Cached(f)
                         /\ Untouched(f) => Untouched(f)'
                         /\ ~(Had /\ f[1] = x) => (Cached(f)' <=> Cached(f))
                         /\ Had /\ f[1] = x => ~Cached(f)'
  BY <1>3, <1>4, <1>5, FilterParts DEF Untouched, Cached
<1>7. /\ HolderTypes(PortHolders, MiniportHolders, AdapterHolders)
      /\ Balanced(heap, PortHolders, MiniportHolders, AdapterHolders)
  BY <1>2, HoldersType DEF LifeInv
<1>8. ASSUME NEW f \in Filters
      PROVE  (f \in registered' <=> f \in registered)
             /\ (f \in children' <=> f \in children) /\ (Out(f)' <=> Out(f))
             /\ Users(f)' = Users(f) /\ Users(f) \in Nat
  <2>1. f[1] \in Adapters /\ f[1][1] \in Devices
    BY FilterParts
  <2> QED BY <1>3, <1>5, <2>1, UsersType DEF Out, Users
<1>9. ASSUME NEW f \in Filters
      PROVE  LET n == One(Had /\ f[1] = x /\ f[2] \in cache[x]) IN
             /\ PortHolders[f]' = PortHolders[f] - n
             /\ MiniportHolders[f]' = MiniportHolders[f] - n
  <2>1. Cached(f) <=> f[2] \in cache[f[1]]
    BY DEF Cached
  <2>2. One(Cached(f)') = One(Cached(f)) - One(Had /\ f[1] = x /\ f[2] \in cache[x])
    BY <1>6, <2>1 DEF One
  <2>3. /\ PortHolders[f] = One(f \in registered) + One(Cached(f)) + One(Out(f)) + Users(f)
        /\ MiniportHolders[f] = One(f \in children) + One(Cached(f)) + One(Out(f))
                                + (IF f[2] = "wave" THEN Users(f) ELSE 0)
    BY <1>2, HoldersOf
  <2>4. /\ PortHolders[f]' = One(f \in registered) + One(Cached(f)') + One(Out(f)) + Users(f)
        /\ MiniportHolders[f]' = One(f \in children) + One(Cached(f)') + One(Out(f))
                                 + (IF f[2] = "wave" THEN Users(f) ELSE 0)
    BY <1>8 DEF PortHolders, MiniportHolders, One
  <2>5. \A q : One(q) \in Nat
    BY DEF One
  <2> QED BY <1>8, <2>2, <2>3, <2>4, <2>5
<1>10. ASSUME NEW b \in Adapters
       PROVE  /\ Had /\ b = x =>
                   AdapterHolders[b] > 0 /\ AdapterHolders[b]' = AdapterHolders[b] - 1
              /\ ~(Had /\ b = x) => AdapterHolders[b]' = AdapterHolders[b]
  <2>1. b[1] \in Devices /\ b[2] \in 1..MaxStarts /\ b = <<b[1], b[2]>>
    BY AdapterParts
  <2>2. Starting(b)' <=> Starting(b)
    BY <1>2, <1>4, <1>5, <2>1 DEF Starting
  <2>3. /\ Had /\ b = x => common[b[1]] = b[2] /\ common'[b[1]] # b[2]
        /\ ~(Had /\ b = x) => (common'[b[1]] = b[2] <=> common[b[1]] = b[2])
    BY <1>1, <1>2, <1>4, <2>1 DEF Had
  <2>4. powered' = powered
    BY <1>3
  <2> QED BY <2>2, <2>3, <2>4 DEF AdapterHolders, One
<1>11. Balanced(heap, PortHolders, MiniportHolders, AdapterHolders)'
  <2>1. PICK p, m, a : p = PortHolders /\ m = MiniportHolders /\ a = AdapterHolders
    OBVIOUS
  <2>2. HolderTypes(p, m, a) /\ Balanced(heap, p, m, a) /\ refused' = refused
    BY <1>3, <1>7, <2>1
  <2>3. CASE Had
    <3>1. \A k \in Kinds : k \in cache[x] => p[<<x, k>>] > 0 /\ m[<<x, k>>] > 0
      <4> SUFFICES ASSUME NEW k \in Kinds, k \in cache[x]
                   PROVE  p[<<x, k>>] > 0 /\ m[<<x, k>>] > 0
        OBVIOUS
      <4> DEFINE f == <<x, k>>
      <4>1. f \in Filters /\ f[1] = x /\ f[2] = k
        BY <1>2, <2>3, AdapterParts
      <4> HIDE DEF f
      <4>2. Cached(f)
        BY <4>1 DEF Cached
      <4>3. /\ PortHolders[f] = One(f \in registered) + One(Cached(f)) + One(Out(f)) + Users(f)
            /\ MiniportHolders[f] = One(f \in children) + One(Cached(f)) + One(Out(f))
                                    + (IF f[2] = "wave" THEN Users(f) ELSE 0)
        BY <1>2, <4>1, HoldersOf
      <4> QED BY <1>8, <2>1, <4>1, <4>2, <4>3 DEF One, f
    <3>2. PICK q, s :
            /\ HolderTypes(q, s, a) /\ Balanced(EmptyCache(heap, x), q, s, a)
            /\ \A f \in Filters : /\ q[f] = p[f] - One(f[1] = x /\ f[2] \in cache[x])
                                  /\ s[f] = m[f] - One(f[1] = x /\ f[2] \in cache[x])
      BY <1>2, <2>2, <2>3, <3>1, EmptyCacheTakes
    <3>3. PICK g, c : /\ g = ReleaseAdapter(EmptyCache(heap, x), x)
                      /\ c = [a EXCEPT ![x] = a[x] - 1]
      OBVIOUS
    <3>4. a[x] > 0
      BY <1>2, <1>10, <2>1, <2>3
    <3>5. HolderTypes(q, s, c) /\ Balanced(g, q, s, c)
      BY <1>2, <2>3, <3>2, <3>3, <3>4, ReleaseAdapterBalanced
    <3>6. \A f \in Filters : PortHolders[f]' = q[f] /\ MiniportHolders[f]' = s[f]
      BY <1>9, <2>1, <2>3, <3>2 DEF One
    <3>7. \A b \in Adapters : AdapterHolders[b]' = c[b]
      BY <1>2, <1>10, <2>1, <2>2, <2>3, <3>3 DEF HolderTypes
    <3>8. heap' = g
      BY <1>3, <2>3, <3>3
    <3> QED BY <2>2, <3>5, <3>6, <3>7, <3>8, BalancedNext
  <2>4. CASE ~Had
    <3>1. \A f \in Filters : PortHolders[f]' = p[f] /\ MiniportHolders[f]' = m[f]
      BY <1>9, <2>1, <2>2, <2>4 DEF One, HolderTypes
    <3>2. \A b \in Adapters : AdapterHolders[b]' = a[b]
      BY <1>10, <2>1, <2>4
    <3>3. heap' = heap
      BY <1>3, <2>4
    <3>4. PICK g : g = heap
      OBVIOUS
    <3> QED BY <2>2, <3>1, <3>2, <3>3, <3>4, BalancedNext
  <2> QED BY <2>3, <2>4
<1>12. AdapterTypes'
  <2>1. dev' \in [Devices -> {"added", "starting", "started", "stopped", "lost", "failed",
                              "removed"}]
    BY <1>2, <1>3 DEF AdapterTypes
  <2>2. common' \in [Devices -> 0..MaxStarts]
    BY <1>2, <1>3, AdapterAssumption DEF AdapterTypes
  <2>3. cache' \in [Adapters -> SUBSET Kinds] /\ leaving' \subseteq Adapters
    BY <1>2, <1>3 DEF AdapterTypes
  <2> QED BY <1>2, <1>3, <1>11, <2>1, <2>2, <2>3 DEF AdapterTypes, Balanced
<1>13. ASSUME NEW e \in Devices PROVE StartOf(e)' /\ StartTells(e)'
  <2>1. CASE e = d
    <3>1. /\ start'[d].step = "idle" /\ start'[d].out = {}
          /\ dev'[d] \in {"stopped", "lost", "removed"} /\ common'[d] = 0
      BY <1>2, <1>3, <1>4
    <3> QED BY <2>1, <3>1 DEF StartOf, StartTells, Before
  <2>2. CASE e # d
    <3>1. /\ start'[e] = start[e] /\ dev'[e] = dev[e] /\ common'[e] = common[e]
          /\ starts'[e] = starts[e] /\ powered' = powered /\ bridged' = bridged
          /\ registered' = registered
      BY <1>3, <1>4, <2>2
    <3>2. Owned(Latest(e)) => starts[e] > 0
      <4>1. StartOf(e) /\ AdapterTypes
        BY DEF LifeInv
      <4>2. Owned(Latest(e)) => dev[e] = "starting" \/ common[e] # 0
        BY DEF Owned, Latest
      <4>3. common[e] # 0 => common[e] = starts[e] /\ starts[e] \in Nat
        BY DEF LifeInv, Owners, AdapterTypes
      <4> QED BY <4>1, <4>2, <4>3 DEF StartOf
    <3>3. Owned(Latest(e)) =>
            /\ Latest(e) \in Adapters /\ Latest(e) # Latest(d)
            /\ \A k \in Kinds : Filter(e, k) \in Filters
      BY <1>2, <2>2, <3>2, LatestParts, LatestDiffer
    <3>4. Owned(Latest(e)) =>
            /\ cache'[Latest(e)] = cache[Latest(e)]
            /\ \A k \in Kinds : Untouched(Filter(e, k)) => Untouched(Filter(e, k))'
      BY <1>2, <1>4, <1>5, <1>6, <3>3
    <3> QED BY <3>1, <3>4, StartStands
  <2> QED BY <2>1, <2>2
<1>14. ASSUME NEW b \in Adapters
       PROVE  /\ Had /\ b = x => ~Owned(b)'
              /\ ~(Had /\ b = x) => (Owned(b)' <=> Owned(b))
  <2>1. b[1] \in Devices /\ b = <<b[1], b[2]>>
    BY AdapterParts
  <2> QED BY <1>1, <1>2, <1>4, <1>5, <2>1 DEF Owned, Had
<1>15. Owners'
  <2>1. \A e \in Devices :
          /\ common'[e] # 0 => common'[e] = starts'[e] /\ dev'[e] \in {"started", "failed"}
          /\ dev'[e] = "started" => common'[e] # 0
    BY <1>3, <1>4 DEF LifeInv, Owners
  <2>2. \A b \in Adapters :
          /\ Owned(b)' => b \notin leaving'
          /\ cache'[b] # {} => Owned(b)'
          /\ b \in powered' \/ (\E k \in Kinds : <<b, k>> \in registered') =>
               Owned(b)' \/ b \in leaving'
    BY <1>3, <1>4, <1>14 DEF LifeInv, Owners
  <2>3. ASSUME NEW b \in Adapters, b[2] > starts'[b[1]]
        PROVE  /\ b \notin powered' /\ b \notin leaving' /\ b \notin bridged' /\ cache'[b] = {}
               /\ \A k \in Kinds : Untouched(<<b, k>>)'
    <3>1. b[2] > starts[b[1]] /\ \A k \in Kinds : <<b, k>> \in Filters
      BY <1>3, <2>3, AdapterParts
    <3>2. ~(Had /\ b = x)
      BY <1>2, <3>1 DEF AdapterTypes
    <3> QED BY <1>3, <1>4, <1>6, <3>1, <3>2 DEF LifeInv, Owners
  <2>4. registered' \subseteq children'
    BY <1>3 DEF LifeInv, Owners
  <2> QED BY <2>1, <2>2, <2>3, <2>4 DEF Owners
<1>16. Streams'
  BY <1>3, <1>5 DEF LifeInv, Streams, Users
<1> QED BY <1>11, <1>12, <1>13, <1>15, <1>16 DEF LifeInv

\* PortCls lets go of the ports of the filters it had registered.
LEMMA PortsReleased ==
  ASSUME NEW h, NEW p, NEW m, NEW a, HolderTypes(p, m, a), Balanced(h, p, m, a),
         NEW x \in Adapters, \A k \in Kinds : <<x, k>> \in registered => p[<<x, k>>] > 0
  PROVE  LET Drop(k, g) == IF <<x, k>> \in registered THEN ReleasePort(g, <<x, k>>) ELSE g
         IN  \E q :
               /\ HolderTypes(q, m, a)
               /\ Balanced(Drop("wave", Drop("topology", h)), q, m, a)
               /\ \A f \in Filters : q[f] = p[f] - One(f[1] = x /\ f \in registered)
<1> DEFINE t == <<x, "topology">>
           w == <<x, "wave">>
           nt == One(t \in registered)
           nw == One(w \in registered)
           g == IF t \in registered THEN ReleasePort(h, t) ELSE h
           e == IF w \in registered THEN ReleasePort(g, w) ELSE g
           p1 == IF t \in registered THEN [p EXCEPT ![t] = p[t] - 1] ELSE p
           q == IF w \in registered THEN [p1 EXCEPT ![w] = p1[w] - 1] ELSE p1
<1>1. /\ t \in Filters /\ w \in Filters /\ t # w /\ t[1] = x /\ w[1] = x
      /\ t \in registered => p[t] > 0
      /\ w \in registered => p[w] > 0
      /\ \A f \in Filters : f[1] = x => f = t \/ f = w
  BY AdapterParts, FilterParts DEF Kinds
<1> HIDE DEF t, w
<1>2. HolderTypes(p1, m, a) /\ Balanced(g, p1, m, a)
  BY <1>1, ReleasePortBalanced
<1>3. /\ p1[t] = p[t] - nt
      /\ \A f \in Filters : f # t => p1[f] = p[f]
  BY <1>1 DEF HolderTypes, One
<1> HIDE DEF p1, g
<1>4. w \in registered => p1[w] > 0
  BY <1>1, <1>3
<1>5. HolderTypes(q, m, a) /\ Balanced(e, q, m, a)
  BY <1>1, <1>2, <1>4, ReleasePortBalanced
<1>6. /\ q[w] = p1[w] - nw
      /\ \A f \in Filters : f # w => q[f] = p1[f]
  BY <1>1, <1>2 DEF HolderTypes, One
<1> HIDE DEF q, e
<1>7. ASSUME NEW f \in Filters
      PROVE  q[f] = p[f] - One(f[1] = x /\ f \in registered)
  <2>1. CASE f = t
    BY <1>1, <1>3, <1>6, <2>1 DEF One
  <2>2. CASE f = w
    BY <1>1, <1>3, <1>6, <2>2 DEF One
  <2>3. CASE f # t /\ f # w
    <3>1. q[f] = p[f] /\ f[1] # x
      BY <1>1, <1>3, <1>6, <2>3
    <3>2. p[f] \in Nat
      BY DEF HolderTypes
    <3> QED BY <3>1, <3>2 DEF One
  <2> QED BY <2>1, <2>2, <2>3
<1> QED BY <1>5, <1>7 DEF e, g, t, w

LEMMA PortClsReleasesInv ==
  ASSUME LifeInv, NEW x \in Adapters, PortClsReleases(x)
  PROVE  LifeInv'
<1> DEFINE Drop(k, h) == IF <<x, k>> \in registered THEN ReleasePort(h, <<x, k>>) ELSE h
<1>1. PICK g : g = Drop("wave", Drop("topology", heap))
  OBVIOUS
<1>2. /\ UNCHANGED <<dev, starts, common, start, cache, children, handle, allocated, refused>>
      /\ heap' = IF x \in powered THEN ReleaseAdapter(g, x) ELSE g
      /\ registered' = registered \ ({x} \X Kinds) /\ bridged' = bridged \ {x}
      /\ powered' = powered \ {x} /\ leaving' = leaving \ {x} /\ x \in leaving
  BY <1>1 DEF PortClsReleases, deviceVars
<1>3. AdapterTypes /\ ~Owned(x) /\ starts \in [Devices -> Nat]
  BY <1>2, AdapterAssumption DEF LifeInv, Owners, AdapterTypes
<1>4. /\ \A e \in Devices : Latest(e)' = Latest(e) /\ \A k : Filter(e, k)' = Filter(e, k)
      /\ \A f : Opened(f)' = Opened(f)
  BY <1>2 DEF Latest, Filter, Opened
<1>5. \A f \in Filters : /\ f \in registered' <=> f \in registered /\ f[1] # x
                         /\ Untouched(f) => Untouched(f)'
  BY <1>2, <1>4, FilterParts DEF Untouched, Cached
<1>6. \A b \in Adapters : Owned(b)' <=> Owned(b)
  BY <1>2, <1>4, AdapterParts DEF Owned
<1>7. ASSUME NEW f \in Filters
      PROVE  /\ PortHolders[f]' = PortHolders[f] - One(f[1] = x /\ f \in registered)
             /\ MiniportHolders[f]' = MiniportHolders[f]
             /\ f \in registered => PortHolders[f] > 0
  <2>1. f[1] \in Adapters /\ f[1][1] \in Devices
    BY FilterParts
  <2>2. (Cached(f)' <=> Cached(f)) /\ (Out(f)' <=> Out(f)) /\ Users(f)' = Users(f)
        /\ Users(f) \in Nat /\ children' = children
    BY <1>2, <1>4, <2>1, UsersType DEF Cached, Out, Users
  <2>3. One(f \in registered') = One(f \in registered) - One(f[1] = x /\ f \in registered)
    BY <1>5 DEF One
  <2>4. /\ PortHolders[f] = One(f \in registered) + One(Cached(f)) + One(Out(f)) + Users(f)
        /\ MiniportHolders[f] = One(f \in children) + One(Cached(f)) + One(Out(f))
                                + (IF f[2] = "wave" THEN Users(f) ELSE 0)
    BY <1>3, HoldersOf
  <2>5. /\ PortHolders[f]' = One(f \in registered') + One(Cached(f)) + One(Out(f)) + Users(f)
        /\ MiniportHolders[f]' = One(f \in children) + One(Cached(f)) + One(Out(f))
                                 + (IF f[2] = "wave" THEN Users(f) ELSE 0)
    BY <2>2 DEF PortHolders, MiniportHolders, One
  <2>6. \A q : One(q) \in Nat
    BY DEF One
  <2>7. f \in registered => One(f \in registered) = 1
    BY DEF One
  <2> QED BY <2>2, <2>3, <2>4, <2>5, <2>6, <2>7
<1>8. ASSUME NEW b \in Adapters
      PROVE  /\ b = x /\ x \in powered =>
                  AdapterHolders[b] > 0 /\ AdapterHolders[b]' = AdapterHolders[b] - 1
             /\ ~(b = x /\ x \in powered) => AdapterHolders[b]' = AdapterHolders[b]
  <2>1. b[1] \in Devices /\ b[2] \in 1..MaxStarts
    BY AdapterParts
  <2>2. (Starting(b)' <=> Starting(b)) /\ common' = common
    BY <1>2, <1>4, <2>1 DEF Starting
  <2>3. b \in powered' <=> b \in powered /\ b # x
    BY <1>2
  <2> QED BY <2>2, <2>3 DEF AdapterHolders, One
<1>9. Balanced(heap, PortHolders, MiniportHolders, AdapterHolders)'
  <2>1. PICK p, m, a : p = PortHolders /\ m = MiniportHolders /\ a = AdapterHolders
    OBVIOUS
  <2>2. HolderTypes(p, m, a) /\ Balanced(heap, p, m, a) /\ refused' = refused
    BY <1>2, <1>3, <2>1, HoldersType DEF LifeInv
  <2>3. \A k \in Kinds : <<x, k>> \in registered => p[<<x, k>>] > 0
    BY <1>7, <2>1, AdapterParts
  <2>4. PICK q : /\ HolderTypes(q, m, a) /\ Balanced(g, q, m, a)
                 /\ \A f \in Filters : q[f] = p[f] - One(f[1] = x /\ f \in registered)
    BY <1>1, <2>2, <2>3, PortsReleased
  <2>5. \A f \in Filters : PortHolders[f]' = q[f] /\ MiniportHolders[f]' = m[f]
    BY <1>7, <2>1, <2>4
  <2>6. CASE x \in powered
    <3>1. PICK k, c : k = ReleaseAdapter(g, x) /\ c = [a EXCEPT ![x] = a[x] - 1]
      OBVIOUS
    <3>2. HolderTypes(q, m, c) /\ Balanced(k, q, m, c)
      <4>1. a[x] > 0
        BY <1>8, <2>1, <2>6
      <4> QED BY <2>4, <3>1, <4>1, ReleaseAdapterBalanced
    <3>3. \A b \in Adapters : AdapterHolders[b]' = c[b]
      BY <1>8, <2>1, <2>2, <2>6, <3>1 DEF HolderTypes
    <3>4. heap' = k
      BY <1>2, <2>6, <3>1
    <3> QED BY <2>2, <2>5, <3>2, <3>3, <3>4, BalancedNext
  <2>7. CASE x \notin powered
    <3>1. \A b \in Adapters : AdapterHolders[b]' = a[b]
      BY <1>8, <2>1, <2>7
    <3>2. heap' = g
      BY <1>2, <2>7
    <3> QED BY <2>2, <2>4, <2>5, <3>1, <3>2, BalancedNext
  <2> QED BY <2>6, <2>7
<1>10. AdapterTypes'
  BY <1>2, <1>3, <1>9 DEF AdapterTypes, Balanced
<1>11. ASSUME NEW e \in Devices PROVE StartOf(e)' /\ StartTells(e)'
  <2>1. Owned(Latest(e)) => starts[e] > 0 /\ Latest(e) # x
    <3>1. StartOf(e) /\ AdapterTypes
      BY DEF LifeInv
    <3>2. Owned(Latest(e)) => dev[e] = "starting" \/ common[e] # 0
      BY DEF Owned, Latest
    <3>3. common[e] # 0 => common[e] = starts[e] /\ starts[e] \in Nat
      BY DEF LifeInv, Owners, AdapterTypes
    <3> QED BY <1>3, <3>1, <3>2, <3>3 DEF StartOf
  <2>2. Owned(Latest(e)) => \A k \in Kinds : Filter(e, k) \in Filters /\ Filter(e, k)[1] # x
    BY <1>3, <2>1, LatestParts
  <2>3. Owned(Latest(e)) =>
          \A k \in Kinds : /\ Filter(e, k) \in registered' <=> Filter(e, k) \in registered
                           /\ Untouched(Filter(e, k)) => Untouched(Filter(e, k))'
    BY <1>4, <1>5, <2>2
  <2> QED BY <1>2, <2>3, StartStands
<1>12. Owners'
  <2>1. \A e \in Devices :
          /\ common'[e] # 0 => common'[e] = starts'[e] /\ dev'[e] \in {"started", "failed"}
          /\ dev'[e] = "started" => common'[e] # 0
    BY <1>2 DEF LifeInv, Owners
  <2>2. \A b \in Adapters :
          /\ Owned(b)' => b \notin leaving'
          /\ cache'[b] # {} => Owned(b)'
          /\ b \in powered' \/ (\E k \in Kinds : <<b, k>> \in registered') =>
               Owned(b)' \/ b \in leaving'
    BY <1>2, <1>6 DEF LifeInv, Owners
  <2>3. ASSUME NEW b \in Adapters, b[2] > starts'[b[1]]
        PROVE  /\ b \notin powered' /\ b \notin leaving' /\ b \notin bridged' /\ cache'[b] = {}
               /\ \A k \in Kinds : Untouched(<<b, k>>)'
    <3>1. b[2] > starts[b[1]] /\ \A k \in Kinds : <<b, k>> \in Filters
      BY <1>2, <2>3, AdapterParts
    <3> QED BY <1>2, <1>5, <3>1 DEF LifeInv, Owners
  <2>4. registered' \subseteq children'
    BY <1>2 DEF LifeInv, Owners
  <2> QED BY <2>1, <2>2, <2>3, <2>4 DEF Owners
<1>13. Streams'
  BY <1>2, <1>4 DEF LifeInv, Streams, Users
<1> QED BY <1>9, <1>10, <1>11, <1>12, <1>13 DEF LifeInv

----------------------------------------------------------------------------
(* Clients.                                                                *)

LEMMA OpensOne ==
  ASSUME AdapterTypes, NEW c \in Clients, NEW f \in Filters, handle[c] = NoFilter,
         handle' = [handle EXCEPT ![c] = f]
  PROVE  /\ Users(f)' = Users(f) + 1
         /\ \A e \in Filters : e # f => Opened(e)' = Opened(e) /\ Users(e)' = Users(e)
<1>1. c \notin Opened(f) /\ Opened(f)' = Opened(f) \union {c}
  BY NoFilterAssumption DEF Opened, AdapterTypes
<1>2. Users(f)' = Users(f) + 1
  BY <1>1, UsersType, FS_AddElement DEF Users
<1>3. \A e \in Filters : e # f => Opened(e)' = Opened(e)
  BY NoFilterAssumption DEF Opened, AdapterTypes
<1> QED BY <1>2, <1>3 DEF Users

LEMMA ClosesOne ==
  ASSUME AdapterTypes, NEW c \in Clients, NEW f \in Filters, handle[c] = f,
         handle' = [handle EXCEPT ![c] = NoFilter]
  PROVE  /\ Users(f)' = Users(f) - 1
         /\ \A e \in Filters : e # f => Opened(e)' = Opened(e) /\ Users(e)' = Users(e)
<1>1. c \in Opened(f) /\ Opened(f)' = Opened(f) \ {c}
  BY NoFilterAssumption DEF Opened, AdapterTypes
<1>2. Users(f)' = Users(f) - 1
  BY <1>1, UsersType, FS_RemoveElement DEF Users
<1>3. \A e \in Filters : e # f => Opened(e)' = Opened(e)
  BY NoFilterAssumption DEF Opened, AdapterTypes
<1> QED BY <1>2, <1>3 DEF Users

\* A client changes neither the devices nor what they own.
LEMMA ClientStands ==
  ASSUME LifeInv,
         UNCHANGED <<deviceVars, cache, registered, bridged, powered, leaving, refused>>,
         \A f \in Filters : Untouched(f) => Untouched(f)',
         registered' \subseteq children'
  PROVE  (\A e \in Devices : StartOf(e)' /\ StartTells(e)') /\ Owners'
<1>1. /\ UNCHANGED <<dev, starts, common, start, cache, registered, bridged, powered, leaving>>
      /\ \A e \in Devices : Latest(e)' = Latest(e) /\ \A k : Filter(e, k)' = Filter(e, k)
  BY DEF deviceVars, Latest, Filter
<1>2. ASSUME NEW e \in Devices PROVE StartOf(e)' /\ StartTells(e)'
  <2>1. Owned(Latest(e)) => starts[e] > 0 /\ AdapterTypes
    <3>1. StartOf(e) /\ AdapterTypes
      BY DEF LifeInv
    <3>2. Owned(Latest(e)) => dev[e] = "starting" \/ common[e] # 0
      BY DEF Owned, Latest
    <3>3. common[e] # 0 => common[e] = starts[e] /\ starts[e] \in Nat
      BY DEF LifeInv, Owners, AdapterTypes
    <3> QED BY <3>1, <3>2, <3>3 DEF StartOf
  <2>2. Owned(Latest(e)) =>
          \A k \in Kinds : Untouched(Filter(e, k)) => Untouched(Filter(e, k))'
    BY <1>1, <2>1, LatestParts
  <2> QED BY <1>1, <2>2, StartStands
<1>3. \A b \in Adapters : Owned(b)' <=> Owned(b)
  BY <1>1, AdapterParts DEF Owned
<1>4. Owners'
  <2>1. \A e \in Devices :
          /\ common'[e] # 0 => common'[e] = starts'[e] /\ dev'[e] \in {"started", "failed"}
          /\ dev'[e] = "started" => common'[e] # 0
    BY <1>1 DEF LifeInv, Owners
  <2>2. \A b \in Adapters :
          /\ Owned(b)' => b \notin leaving'
          /\ cache'[b] # {} => Owned(b)'
          /\ b \in powered' \/ (\E k \in Kinds : <<b, k>> \in registered') =>
               Owned(b)' \/ b \in leaving'
    BY <1>1, <1>3 DEF LifeInv, Owners
  <2>3. ASSUME NEW b \in Adapters, b[2] > starts'[b[1]]
        PROVE  /\ b \notin powered' /\ b \notin leaving' /\ b \notin bridged' /\ cache'[b] = {}
               /\ \A k \in Kinds : Untouched(<<b, k>>)'
    BY <1>1, <2>3, AdapterParts DEF LifeInv, Owners
  <2> QED BY <2>1, <2>2, <2>3 DEF Owners
<1> QED BY <1>2, <1>4

LEMMA ClientHolders ==
  ASSUME LifeInv,
         UNCHANGED <<deviceVars, cache, registered, bridged, powered, leaving, refused>>
  PROVE  /\ \A f \in Filters :
              LET n == One(Cached(f)) + One(Out(f)) IN
              /\ n \in Nat /\ Users(f) \in Nat
              /\ PortHolders[f] = One(f \in registered) + n + Users(f)
              /\ PortHolders[f]' = One(f \in registered) + n + Users(f)'
              /\ MiniportHolders[f] = One(f \in children) + n
                                      + (IF f[2] = "wave" THEN Users(f) ELSE 0)
              /\ MiniportHolders[f]' = One(f \in children') + n
                                       + (IF f[2] = "wave" THEN Users(f)' ELSE 0)
         /\ \A b \in Adapters : AdapterHolders[b]' = AdapterHolders[b]
<1>1. /\ UNCHANGED <<dev, starts, common, start, cache, registered, bridged, powered, leaving>>
      /\ \A e \in Devices : Latest(e)' = Latest(e)
  BY DEF deviceVars, Latest
<1>2. ASSUME NEW f \in Filters
      PROVE  LET n == One(Cached(f)) + One(Out(f)) IN
              /\ n \in Nat /\ Users(f) \in Nat
              /\ PortHolders[f] = One(f \in registered) + n + Users(f)
              /\ PortHolders[f]' = One(f \in registered) + n + Users(f)'
              /\ MiniportHolders[f] = One(f \in children) + n
                                      + (IF f[2] = "wave" THEN Users(f) ELSE 0)
              /\ MiniportHolders[f]' = One(f \in children') + n
                                       + (IF f[2] = "wave" THEN Users(f)' ELSE 0)
  <2>1. f[1] \in Adapters /\ f[1][1] \in Devices
    BY FilterParts
  <2>2. (Cached(f)' <=> Cached(f)) /\ (Out(f)' <=> Out(f)) /\ registered' = registered
    BY <1>1, <2>1 DEF Cached, Out
  <2>3. /\ PortHolders[f] = One(f \in registered) + One(Cached(f)) + One(Out(f)) + Users(f)
        /\ MiniportHolders[f] = One(f \in children) + One(Cached(f)) + One(Out(f))
                                + (IF f[2] = "wave" THEN Users(f) ELSE 0)
    BY HoldersOf DEF LifeInv
  <2>4. /\ PortHolders[f]' = One(f \in registered) + One(Cached(f)) + One(Out(f)) + Users(f)'
        /\ MiniportHolders[f]' = One(f \in children') + One(Cached(f)) + One(Out(f))
                                 + (IF f[2] = "wave" THEN Users(f)' ELSE 0)
    BY <2>2 DEF PortHolders, MiniportHolders, One
  <2>5. \A q : One(q) \in Nat
    BY DEF One
  <2>6. Users(f) \in Nat /\ Users(f)' \in Nat
    <3>1. Users(f)' \in Nat
      <4>1. IsFiniteSet({c \in Clients : handle'[c] = f})
        BY AdapterAssumption, FS_Subset
      <4> QED BY <4>1, FS_CardinalityType DEF Users, Opened
    <3> QED BY <3>1, UsersType
  <2> QED BY <2>3, <2>4, <2>5, <2>6
<1>3. ASSUME NEW b \in Adapters PROVE AdapterHolders[b]' = AdapterHolders[b]
  <2>1. b[1] \in Devices
    BY AdapterParts
  <2>2. (Starting(b)' <=> Starting(b)) /\ common' = common /\ powered' = powered
    BY <1>1, <2>1 DEF Starting
  <2> QED BY <2>2 DEF AdapterHolders, One
<1> QED BY <1>2, <1>3

LEMMA OpenFilterInv ==
  ASSUME LifeInv, NEW c \in Clients, NEW f \in registered, OpenFilter(c, f)
  PROVE  LifeInv'
<1>1. /\ AdapterTypes /\ f \in Filters /\ handle[c] = NoFilter /\ f[2] = "topology"
      /\ handle' = [handle EXCEPT ![c] = f] /\ heap' = AddPort(heap, f)
      /\ UNCHANGED <<deviceVars, cache, registered, bridged, powered, leaving, refused>>
      /\ allocated' = allocated
      /\ registered \subseteq children /\ children' = children
  BY DEF LifeInv, AdapterTypes, Owners, OpenFilter, MayOpen
<1>2. /\ Users(f)' = Users(f) + 1
      /\ \A e \in Filters : e # f => Opened(e)' = Opened(e) /\ Users(e)' = Users(e)
  BY <1>1, OpensOne
<1>3. Balanced(heap, PortHolders, MiniportHolders, AdapterHolders)'
  <2>1. PICK p, m, a, g, q : /\ p = PortHolders /\ m = MiniportHolders /\ a = AdapterHolders
                             /\ g = AddPort(heap, f) /\ q = [p EXCEPT ![f] = p[f] + 1]
    OBVIOUS
  <2>2. HolderTypes(p, m, a) /\ Balanced(heap, p, m, a)
    BY <1>1, <2>1, HoldersType DEF LifeInv
  <2>4. HolderTypes(q, m, a) /\ Balanced(g, q, m, a)
    BY <1>1, <2>1, <2>2, AddPortBalanced
  <2>5. ASSUME NEW e \in Filters
        PROVE  PortHolders[e]' = q[e] /\ MiniportHolders[e]' = m[e]
    <3>1. CASE e = f
      <4>1. q[e] = p[e] + 1
        BY <2>1, <2>2, <3>1 DEF HolderTypes
      <4> QED BY <1>1, <1>2, <2>1, <3>1, <4>1, ClientHolders DEF One
    <3>2. CASE e # f
      <4>1. q[e] = p[e]
        BY <2>1, <2>2, <3>2 DEF HolderTypes
      <4>2. PortHolders[e]' = PortHolders[e] /\ MiniportHolders[e]' = MiniportHolders[e]
        BY <1>1, <1>2, <3>2, ClientHolders
      <4> QED BY <2>1, <4>1, <4>2
    <3> QED BY <3>1, <3>2
  <2>6. \A b \in Adapters : AdapterHolders[b]' = a[b]
    BY <1>1, <2>1, ClientHolders
  <2>7. heap' = g /\ refused' = refused
    BY <1>1, <2>1
  <2> QED BY <2>4, <2>5, <2>6, <2>7, BalancedNext
<1>4. AdapterTypes'
  BY <1>1, <1>3 DEF AdapterTypes, Balanced, deviceVars
<1>5. \A e \in Filters : Untouched(e) => Untouched(e)'
  BY <1>1, <1>2 DEF Untouched, Cached
<1>6. Streams'
  <2> SUFFICES ASSUME NEW b \in Adapters
               PROVE  allocated'[b] = Users(<<b, "wave">>)'
    BY DEF Streams
  <2>1. <<b, "wave">> \in Filters /\ <<b, "wave">>[2] = "wave"
    BY AdapterParts DEF Kinds
  <2>2. Users(<<b, "wave">>)' = Users(<<b, "wave">>)
    BY <1>1, <1>2, <2>1
  <2> QED BY <1>1, <2>2 DEF LifeInv, Streams
<1> QED BY <1>1, <1>3, <1>4, <1>5, <1>6, ClientStands DEF LifeInv

LEMMA NewStreamInv ==
  ASSUME LifeInv, NEW c \in Clients, NEW f \in registered, NEW inits \in BOOLEAN,
         NewStream(c, f, inits)
  PROVE  LifeInv'
<1>1. /\ AdapterTypes /\ f \in Filters /\ handle[c] = NoFilter /\ f[2] = "wave"
      /\ f[1] \in Adapters /\ f = <<f[1], "wave">>
      /\ UNCHANGED <<deviceVars, cache, registered, bridged, powered, leaving, refused>>
      /\ registered \subseteq children /\ children' = children
      /\ allocated[f[1]] < MaxStreams /\ allocated \in [Adapters -> 0..MaxStreams]
  BY FilterParts DEF LifeInv, AdapterTypes, Owners, NewStream, MayOpen, StreamsLeft
<1>2. PICK p, m, a : p = PortHolders /\ m = MiniportHolders /\ a = AdapterHolders
  OBVIOUS
<1>3. HolderTypes(p, m, a) /\ Balanced(heap, p, m, a) /\ m[f] \in Nat /\ m[f] > 0
  <2>1. HolderTypes(p, m, a) /\ Balanced(heap, p, m, a)
    BY <1>1, <1>2, HoldersType DEF LifeInv
  <2>2. m[f] > 0
    BY <1>1, <1>2, ClientHolders DEF One
  <2> QED BY <1>1, <2>1, <2>2 DEF HolderTypes
<1>4. CASE inits
  <2>1. /\ handle' = [handle EXCEPT ![c] = f]
        /\ heap' = AddMiniport(AddPort(heap, f), f)
        /\ allocated' = [allocated EXCEPT ![f[1]] = allocated[f[1]] + 1]
    BY <1>4 DEF NewStream, StreamInit, StreamCreated
  <2>2. /\ Users(f)' = Users(f) + 1
        /\ \A e \in Filters : e # f => Opened(e)' = Opened(e) /\ Users(e)' = Users(e)
    BY <1>1, <2>1, OpensOne
  <2>3. PICK g, k, q, s : /\ g = AddPort(heap, f) /\ k = AddMiniport(g, f)
                          /\ q = [p EXCEPT ![f] = p[f] + 1] /\ s = [m EXCEPT ![f] = m[f] + 1]
    OBVIOUS
  <2>4. HolderTypes(q, m, a) /\ Balanced(g, q, m, a)
    BY <1>1, <1>3, <2>3, AddPortBalanced
  <2>5. q[f] = p[f] + 1 /\ s[f] = m[f] + 1
        /\ \A e \in Filters : e # f => q[e] = p[e] /\ s[e] = m[e]
    BY <1>1, <1>3, <2>3 DEF HolderTypes
  <2>6. HolderTypes(q, s, a) /\ Balanced(k, q, s, a)
    BY <1>1, <1>3, <2>3, <2>4, AddMiniportBalanced
  <2>7. ASSUME NEW e \in Filters
        PROVE  PortHolders[e]' = q[e] /\ MiniportHolders[e]' = s[e]
    <3>1. CASE e = f
      BY <1>1, <1>2, <2>2, <2>5, <3>1, ClientHolders DEF One
    <3>2. CASE e # f
      <4>1. PortHolders[e]' = PortHolders[e] /\ MiniportHolders[e]' = MiniportHolders[e]
        BY <1>1, <2>2, <3>2, ClientHolders
      <4> QED BY <1>2, <2>5, <3>2, <4>1
    <3> QED BY <3>1, <3>2
  <2>8. \A b \in Adapters : AdapterHolders[b]' = a[b]
    BY <1>1, <1>2, ClientHolders
  <2>9. heap' = k /\ refused' = refused
    BY <1>1, <2>1, <2>3
  <2>10. Balanced(heap, PortHolders, MiniportHolders, AdapterHolders)'
    BY <2>6, <2>7, <2>8, <2>9, BalancedNext
  <2>11. AdapterTypes'
    <3>1. handle' \in [Clients -> Filters \union {NoFilter}]
      BY <1>1, <2>1 DEF AdapterTypes
    <3>2. allocated' \in [Adapters -> 0..MaxStreams]
      <4> DEFINE n == allocated[f[1]] + 1
      <4>1. n \in 0..MaxStreams
        BY <1>1, AdapterAssumption
      <4> HIDE DEF n
      <4> QED BY <1>1, <2>1, <4>1 DEF n
    <3> QED BY <1>1, <2>10, <3>1, <3>2 DEF AdapterTypes, Balanced, deviceVars
  <2>12. \A e \in Filters : Untouched(e) => Untouched(e)'
    BY <1>1, <2>2 DEF Untouched, Cached
  <2>13. Streams'
    <3> SUFFICES ASSUME NEW b \in Adapters
                 PROVE  allocated'[b] = Users(<<b, "wave">>)'
      BY DEF Streams
    <3>1. allocated[b] = Users(<<b, "wave">>) /\ <<b, "wave">> \in Filters
      BY AdapterParts DEF LifeInv, Streams, Kinds
    <3>2. CASE b = f[1]
      BY <1>1, <2>1, <2>2, <3>1, <3>2
    <3>3. CASE b # f[1]
      <4>1. <<b, "wave">> # f
        BY <3>3
      <4> QED BY <1>1, <2>1, <2>2, <3>1, <3>3, <4>1
    <3> QED BY <3>2, <3>3
  <2> QED BY <1>1, <2>10, <2>11, <2>12, <2>13, ClientStands DEF LifeInv
<1>5. CASE ~inits
  <2>1. /\ handle' = handle /\ allocated' = allocated
        /\ heap' = ReleaseMiniport(AddMiniport(heap, f), f)
    BY <1>5 DEF NewStream, StreamInit, DestroyStream
  <2>2. \A e : Opened(e)' = Opened(e) /\ Users(e)' = Users(e)
    BY <2>1 DEF Users, Opened
  <2>3. PICK g, k, s, t : /\ g = AddMiniport(heap, f) /\ k = ReleaseMiniport(g, f)
                          /\ s = [m EXCEPT ![f] = m[f] + 1] /\ t = [s EXCEPT ![f] = s[f] - 1]
    OBVIOUS
  <2>4. HolderTypes(p, s, a) /\ Balanced(g, p, s, a)
    BY <1>1, <1>3, <2>3, AddMiniportBalanced
  <2>5. s[f] = m[f] + 1 /\ t = m
    <3>1. s[f] = m[f] + 1 /\ m \in [Filters -> Nat]
      BY <1>1, <1>3, <2>3 DEF HolderTypes
    <3>2. s[f] - 1 = m[f]
      BY <1>3, <3>1
    <3>3. t = [s EXCEPT ![f] = m[f]]
      BY <2>3, <3>2
    <3> QED BY <2>3, <3>1, <3>3
  <2>6. HolderTypes(p, t, a) /\ Balanced(k, p, t, a)
    <3>1. s[f] > 0
      BY <1>3, <2>5
    <3> QED BY <1>1, <2>3, <2>4, <3>1, ReleaseMiniportBalanced
  <2>7. ASSUME NEW e \in Filters
        PROVE  PortHolders[e]' = p[e] /\ MiniportHolders[e]' = t[e]
    BY <1>1, <1>2, <2>2, <2>5, ClientHolders
  <2>8. \A b \in Adapters : AdapterHolders[b]' = a[b]
    BY <1>1, <1>2, ClientHolders
  <2>9. heap' = k /\ refused' = refused
    BY <1>1, <2>1, <2>3
  <2>10. Balanced(heap, PortHolders, MiniportHolders, AdapterHolders)'
    BY <2>6, <2>7, <2>8, <2>9, BalancedNext
  <2>11. AdapterTypes'
    BY <1>1, <2>1, <2>10 DEF AdapterTypes, Balanced, deviceVars
  <2>12. \A e \in Filters : Untouched(e) => Untouched(e)'
    BY <1>1, <2>2 DEF Untouched, Cached
  <2>13. Streams'
    BY <2>1, <2>2 DEF LifeInv, Streams
  <2> QED BY <1>1, <2>10, <2>11, <2>12, <2>13, ClientStands DEF LifeInv
<1> QED BY <1>4, <1>5

LEMMA CloseInv ==
  ASSUME LifeInv, NEW c \in Clients, Close(c)
  PROVE  LifeInv'
<1>1. PICK f : f = handle[c]
  OBVIOUS
<1>2. /\ AdapterTypes /\ f \in Filters /\ handle' = [handle EXCEPT ![c] = NoFilter]
      /\ UNCHANGED <<deviceVars, cache, registered, bridged, powered, leaving, refused>>
      /\ registered \subseteq children /\ children' = children
      /\ allocated \in [Adapters -> 0..MaxStreams] /\ f[1] \in Adapters
      /\ f[2] = "wave" => /\ f = <<f[1], "wave">>
                          /\ heap' = ReleasePort(ReleaseMiniport(heap, f), f)
                          /\ allocated' = [allocated EXCEPT ![f[1]] = allocated[f[1]] - 1]
      /\ f[2] # "wave" => heap' = ReleasePort(heap, f) /\ allocated' = allocated
  <2>1. AdapterTypes /\ f # NoFilter
    BY <1>1 DEF LifeInv, Close
  <2>2. f \in Filters
    BY <1>1, <2>1 DEF AdapterTypes
  <2>3. f[1] \in Adapters /\ f = <<f[1], f[2]>>
    BY <2>2, FilterParts
  <2>4. registered \subseteq children
    BY DEF LifeInv, Owners
  <2> QED BY <1>1, <2>1, <2>2, <2>3, <2>4 DEF AdapterTypes, Close, DestroyStream, StreamClosed
<1>3. /\ Users(f)' = Users(f) - 1 /\ Users(f) > 0
      /\ \A e \in Filters : e # f => Opened(e)' = Opened(e) /\ Users(e)' = Users(e)
  BY <1>1, <1>2, ClosesOne, UsersPositive
<1>4. PICK p, m, a : p = PortHolders /\ m = MiniportHolders /\ a = AdapterHolders
  OBVIOUS
<1>5. HolderTypes(p, m, a) /\ Balanced(heap, p, m, a) /\ p[f] > 0
      /\ (f[2] = "wave" => m[f] > 0)
  <2>1. HolderTypes(p, m, a) /\ Balanced(heap, p, m, a)
    BY <1>2, <1>4, HoldersType DEF LifeInv
  <2>2. p[f] > 0
    BY <1>2, <1>3, <1>4, ClientHolders DEF One
  <2>3. f[2] = "wave" => m[f] > 0
    BY <1>2, <1>3, <1>4, ClientHolders DEF One
  <2> QED BY <2>1, <2>2, <2>3
<1>6. PICK q : q = [p EXCEPT ![f] = p[f] - 1]
  OBVIOUS
<1>7. q[f] = p[f] - 1 /\ \A e \in Filters : e # f => q[e] = p[e]
  BY <1>2, <1>5, <1>6 DEF HolderTypes
<1>8. \A b \in Adapters : AdapterHolders[b]' = a[b]
  BY <1>2, <1>4, ClientHolders
<1>9. Balanced(heap, PortHolders, MiniportHolders, AdapterHolders)'
  <2>1. CASE f[2] = "wave"
    <3>1. PICK g, s : /\ g = ReleasePort(ReleaseMiniport(heap, f), f)
                      /\ s = [m EXCEPT ![f] = m[f] - 1]
      OBVIOUS
    <3>2. HolderTypes(q, s, a) /\ Balanced(g, q, s, a)
      BY <1>2, <1>5, <1>6, <2>1, <3>1, ReleaseBothBalanced
    <3>3. s[f] = m[f] - 1 /\ \A e \in Filters : e # f => s[e] = m[e]
      BY <1>2, <1>5, <3>1 DEF HolderTypes
    <3>4. ASSUME NEW e \in Filters
          PROVE  PortHolders[e]' = q[e] /\ MiniportHolders[e]' = s[e]
      <4>1. CASE e = f
        BY <1>2, <1>3, <1>4, <1>7, <2>1, <3>3, <4>1, ClientHolders DEF One
      <4>2. CASE e # f
        <5>1. PortHolders[e]' = PortHolders[e] /\ MiniportHolders[e]' = MiniportHolders[e]
          BY <1>2, <1>3, <4>2, ClientHolders
        <5> QED BY <1>4, <1>7, <3>3, <4>2, <5>1
      <4> QED BY <4>1, <4>2
    <3>5. heap' = g /\ refused' = refused
      BY <1>2, <2>1, <3>1
    <3> QED BY <1>8, <3>2, <3>4, <3>5, BalancedNext
  <2>2. CASE f[2] # "wave"
    <3>1. PICK g : g = ReleasePort(heap, f)
      OBVIOUS
    <3>2. HolderTypes(q, m, a) /\ Balanced(g, q, m, a)
      BY <1>2, <1>5, <1>6, <3>1, ReleasePortBalanced
    <3>3. ASSUME NEW e \in Filters
          PROVE  PortHolders[e]' = q[e] /\ MiniportHolders[e]' = m[e]
      <4>1. CASE e = f
        BY <1>2, <1>3, <1>4, <1>7, <2>2, <4>1, ClientHolders DEF One
      <4>2. CASE e # f
        <5>1. PortHolders[e]' = PortHolders[e] /\ MiniportHolders[e]' = MiniportHolders[e]
          BY <1>2, <1>3, <4>2, ClientHolders
        <5> QED BY <1>4, <1>7, <4>2, <5>1
      <4> QED BY <4>1, <4>2
    <3>4. heap' = g /\ refused' = refused
      BY <1>2, <2>2, <3>1
    <3> QED BY <1>8, <3>2, <3>3, <3>4, BalancedNext
  <2> QED BY <2>1, <2>2
<1>10. Streams'
  <2> SUFFICES ASSUME NEW b \in Adapters
               PROVE  allocated'[b] = Users(<<b, "wave">>)'
    BY DEF Streams
  <2>1. allocated[b] = Users(<<b, "wave">>) /\ <<b, "wave">> \in Filters
        /\ <<b, "wave">>[2] = "wave"
    BY AdapterParts DEF LifeInv, Streams, Kinds
  <2>2. CASE f = <<b, "wave">>
    <3>1. f[2] = "wave" /\ b = f[1]
      BY <2>2
    <3> QED BY <1>2, <1>3, <2>1, <2>2, <3>1
  <2>3. CASE f # <<b, "wave">>
    <3>1. Users(<<b, "wave">>)' = Users(<<b, "wave">>)
      BY <1>3, <2>1, <2>3
    <3>2. allocated'[b] = allocated[b]
      BY <1>2, <2>1, <2>3
    <3> QED BY <2>1, <3>1, <3>2
  <2> QED BY <2>2, <2>3
<1>11. AdapterTypes'
  <2>1. handle' \in [Clients -> Filters \union {NoFilter}]
    BY <1>2 DEF AdapterTypes
  <2>2. allocated' \in [Adapters -> 0..MaxStreams]
    <3>1. CASE f[2] # "wave"
      BY <1>2, <3>1
    <3>2. CASE f[2] = "wave"
      <4> DEFINE n == allocated[f[1]] - 1
      <4>1. allocated[f[1]] = Users(f) /\ Users(f) > 0
        BY <1>2, <1>3, <3>2 DEF LifeInv, Streams
      <4>2. n \in 0..MaxStreams
        BY <1>2, <4>1, AdapterAssumption
      <4>3. allocated' = [allocated EXCEPT ![f[1]] = n]
        BY <1>2, <3>2
      <4> HIDE DEF n
      <4> QED BY <1>2, <4>2, <4>3
    <3> QED BY <3>1, <3>2
  <2> QED BY <1>2, <1>9, <2>1, <2>2 DEF AdapterTypes, Balanced, deviceVars
<1>12. \A e \in Filters : Untouched(e) => Untouched(e)'
  <2>1. f \in Filters /\ c \in Opened(f) /\ \A e \in Filters : Untouched(e) => e # f
    BY <1>1, <1>2 DEF Opened, Untouched
  <2> QED BY <1>2, <1>3, <2>1 DEF Untouched, Cached
<1> QED BY <1>2, <1>9, <1>10, <1>11, <1>12, ClientStands DEF LifeInv

\* A port that lets go of its miniport is not registered: no client depends on it.
LEMMA ReleaseChildrenInv ==
  ASSUME LifeInv, NEW f \in children, ReleaseChildren(f)
  PROVE  LifeInv'
<1>1. /\ AdapterTypes /\ f \in Filters /\ f \notin registered /\ children' = children \ {f}
      /\ heap' = ReleaseMiniport(heap, f) /\ registered \subseteq children
      /\ UNCHANGED <<deviceVars, cache, registered, bridged, powered, leaving, refused>>
      /\ handle' = handle /\ allocated' = allocated
  BY DEF LifeInv, AdapterTypes, Owners, ReleaseChildren
<1>2. \A e : Opened(e)' = Opened(e) /\ Users(e)' = Users(e)
  BY <1>1 DEF Users, Opened
<1>3. PICK p, m, a, g, s : /\ p = PortHolders /\ m = MiniportHolders /\ a = AdapterHolders
                           /\ g = ReleaseMiniport(heap, f) /\ s = [m EXCEPT ![f] = m[f] - 1]
  OBVIOUS
<1>4. HolderTypes(p, m, a) /\ Balanced(heap, p, m, a)
  BY <1>1, <1>3, HoldersType DEF LifeInv
<1>5. m[f] > 0
  BY <1>1, <1>3, ClientHolders DEF One
<1>6. HolderTypes(p, s, a) /\ Balanced(g, p, s, a)
  BY <1>1, <1>3, <1>4, <1>5, ReleaseMiniportBalanced
<1>7. s[f] = m[f] - 1 /\ \A e \in Filters : e # f => s[e] = m[e]
  BY <1>1, <1>3, <1>4 DEF HolderTypes
<1>8. ASSUME NEW e \in Filters
      PROVE  PortHolders[e]' = p[e] /\ MiniportHolders[e]' = s[e]
  <2>1. CASE e = f
    BY <1>1, <1>2, <1>3, <1>7, <2>1, ClientHolders DEF One
  <2>2. CASE e # f
    <3>1. PortHolders[e]' = PortHolders[e] /\ MiniportHolders[e]' = MiniportHolders[e]
      BY <1>1, <1>2, <2>2, ClientHolders DEF One
    <3> QED BY <1>3, <1>7, <2>2, <3>1
  <2> QED BY <2>1, <2>2
<1>9. \A b \in Adapters : AdapterHolders[b]' = a[b]
  BY <1>1, <1>3, ClientHolders
<1>10. heap' = g /\ refused' = refused
  BY <1>1, <1>3
<1>11. Balanced(heap, PortHolders, MiniportHolders, AdapterHolders)'
  BY <1>6, <1>8, <1>9, <1>10, BalancedNext
<1>12. AdapterTypes'
  BY <1>1, <1>11 DEF AdapterTypes, Balanced, deviceVars
<1>13. \A e \in Filters : Untouched(e) => Untouched(e)'
  BY <1>1, <1>2 DEF Untouched, Cached
<1>14. registered' \subseteq children' /\ Streams'
  BY <1>1, <1>2 DEF LifeInv, Streams
<1> QED BY <1>1, <1>11, <1>12, <1>13, <1>14, ClientStands DEF LifeInv

----------------------------------------------------------------------------
(* The invariant, and what it says.                                        *)

LEMMA LifeInitInv == LifeInit => LifeInv
<1> SUFFICES ASSUME LifeInit PROVE LifeInv
  OBVIOUS
<1>1. AdapterTypes
  <2>1. heap \in HeapType
    BY DEF LifeInit, HeapType
  <2>2. start \in [Devices -> StartType]
    BY DEF LifeInit, StartType, Steps
  <2> QED BY <2>1, <2>2, AdapterAssumption DEF LifeInit, AdapterTypes, StartType
<1>2. \A f \in Filters : Opened(f) = {} /\ Users(f) = 0 /\ Untouched(f) /\ ~Cached(f) /\ ~Out(f)
  <2> TAKE f \in Filters
  <2>1. f[1] \in Adapters /\ f[1][1] \in Devices
    BY FilterParts
  <2>2. Opened(f) = {}
    BY NoFilterAssumption DEF LifeInit, Opened
  <2>3. ~Cached(f) /\ ~Out(f)
    BY <2>1 DEF LifeInit, Cached, Out
  <2> QED BY <2>2, <2>3, UsersNone DEF LifeInit, Untouched
<1>3. Balanced(heap, PortHolders, MiniportHolders, AdapterHolders)
  <2>1. \A f \in Filters : PortHolders[f] = 0 /\ MiniportHolders[f] = 0
    BY <1>2 DEF PortHolders, MiniportHolders, One, LifeInit
  <2>2. \A b \in Adapters : AdapterHolders[b] = 0
    BY AdapterParts DEF AdapterHolders, One, LifeInit, Starting
  <2>3. /\ \A f \in Filters : heap.port[f] = 0 /\ heap.miniport[f] = 0
        /\ \A b \in Adapters : heap.adapter[b] = 0
        /\ heap.instances = 0 /\ refused = 0
    BY DEF LifeInit
  <2>4. Counts(heap, PortHolders, MiniportHolders, AdapterHolders)
    BY <2>1, <2>2, <2>3, AdapterParts DEF Counts, One
  <2> QED BY <1>1, <2>3, <2>4 DEF AdapterTypes, Balanced, Instances
<1>4. ASSUME NEW d \in Devices PROVE StartOf(d) /\ StartTells(d)
  BY DEF LifeInit, StartOf, StartTells, Before
<1>5. Owners
  <2>1. \A a \in Adapters : ~Owned(a)
    BY AdapterParts DEF LifeInit, Owned
  <2> QED BY <1>2, <2>1, AdapterParts DEF LifeInit, Owners
<1>6. Streams
  BY <1>2, AdapterParts DEF LifeInit, Streams, Kinds
<1> QED BY <1>1, <1>3, <1>4, <1>5, <1>6 DEF LifeInv

LEMMA StartDeviceInv ==
  ASSUME LifeInv, NEW d \in Devices, StartDevice(d)
  PROVE  LifeInv'
<1>1. CASE \E allocates \in BOOLEAN : NewAdapterCommon(d, allocates)
  BY <1>1, NewAdapterCommonInv
<1>2. CASE \E inits, registers \in BOOLEAN : InitAdapter(d, inits, registers)
  BY <1>2, InitAdapterInv
<1>3. CASE \E creates \in BOOLEAN :
             \/ CreateAudioInterface(d, "topology", "wave", creates)
             \/ CreateAudioInterface(d, "wave", "connect", creates)
  BY <1>3, CreateAudioInterfaceInv
<1>4. CASE \E registers, caches \in BOOLEAN :
             \/ InstallSubdevice(d, "topology", "wave", registers, caches)
             \/ InstallSubdevice(d, "wave", "connect", registers, caches)
  BY <1>4, InstallSubdeviceInv
<1>5. CASE \E connects \in BOOLEAN : ConnectTopologies(d, connects)
  BY <1>5, ConnectTopologiesInv
<1>6. CASE Unwind(d)
  BY <1>6, UnwindInv
<1>7. CASE ExitStart(d)
  BY <1>7, ExitStartInv
<1>8. CASE MakeFails(d, "topology", "wave") \/ MakeFails(d, "wave", "connect")
  BY <1>8, MakeFailsInv
<1> QED BY <1>1, <1>2, <1>3, <1>4, <1>5, <1>6, <1>7, <1>8 DEF StartDevice

LEMMA LifeStutters ==
  ASSUME LifeInv, UNCHANGED lifeVars
  PROVE  LifeInv'
<1>1. UNCHANGED <<deviceVars, cache, registered, bridged, powered, leaving, refused>>
      /\ registered \subseteq children /\ children' = children
      /\ heap' = heap /\ handle' = handle /\ allocated' = allocated
  BY DEF lifeVars, LifeInv, Owners
<1>2. \A f : Opened(f)' = Opened(f) /\ Users(f)' = Users(f)
  BY <1>1 DEF Opened, Users
<1>3. \A f \in Filters : Untouched(f) => Untouched(f)'
  BY <1>1, <1>2 DEF Untouched, Cached
<1>4. PICK p, m, a, g : /\ p = PortHolders /\ m = MiniportHolders /\ a = AdapterHolders
                        /\ g = heap
  OBVIOUS
<1>5. HolderTypes(p, m, a) /\ Balanced(g, p, m, a)
  BY <1>4, HoldersType DEF LifeInv
<1>6. /\ \A f \in Filters : PortHolders[f]' = p[f] /\ MiniportHolders[f]' = m[f]
      /\ \A b \in Adapters : AdapterHolders[b]' = a[b]
  BY <1>1, <1>2, <1>4, ClientHolders
<1>7. Balanced(heap, PortHolders, MiniportHolders, AdapterHolders)'
  BY <1>1, <1>4, <1>5, <1>6, BalancedNext
<1>8. AdapterTypes' /\ Streams'
  BY <1>1, <1>2 DEF LifeInv, AdapterTypes, Streams, deviceVars
<1> QED BY <1>1, <1>3, <1>7, <1>8, ClientStands DEF LifeInv

LEMMA LifeInductive == LifeInv /\ [LifeNext]_lifeVars => LifeInv'
<1> SUFFICES ASSUME LifeInv, [LifeNext]_lifeVars PROVE LifeInv'
  OBVIOUS
<1>1. CASE \E d \in Devices : StartDevice(d)
  BY <1>1, StartDeviceInv
<1>2. CASE \E d \in Devices : \E irp \in {"stopped", "lost", "removed"} : PnpHandler(d, irp)
  BY <1>2, PnpHandlerInv
<1>3. CASE \E x \in Adapters : PortClsReleases(x)
  BY <1>3, PortClsReleasesInv
<1>4. CASE \E c \in Clients : \E f \in registered : OpenFilter(c, f)
  BY <1>4, OpenFilterInv
<1>5. CASE \E c \in Clients : \E f \in registered : \E inits \in BOOLEAN :
             NewStream(c, f, inits)
  BY <1>5, NewStreamInv
<1>6. CASE \E c \in Clients : Close(c)
  BY <1>6, CloseInv
<1>7. CASE UNCHANGED lifeVars
  BY <1>7, LifeStutters
<1>8. CASE \E f \in children : ReleaseChildren(f)
  BY <1>8, ReleaseChildrenInv
<1> QED BY <1>1, <1>2, <1>3, <1>4, <1>5, <1>6, <1>7, <1>8 DEF LifeNext

LEMMA LifeAlways == LifeSpec => []LifeInv
  BY LifeInitInv, LifeInductive, PTL DEF LifeSpec

\* Every variable of an adapter's life keeps its type, and there is never more than
\* one instance: m_AdapterInstances is 0 or 1.
THEOREM LifeTypeCorrect == LifeSpec => []LifeTypeOK
<1>1. LifeInv => LifeTypeOK
  <2> SUFFICES ASSUME LifeInv PROVE LifeTypeOK
    OBVIOUS
  <2>1. AdapterTypes /\ Instances(heap)
    BY DEF LifeInv, Balanced
  <2>2. heap.instances \in {0, 1}
    BY <2>1 DEF Instances, AdapterTypes
  <2>3. heap.adapter \in [Adapters -> Int] /\ heap.port \in [Filters -> Int]
        /\ heap.miniport \in [Filters -> Int]
    BY <2>1 DEF AdapterTypes, HeapType
  <2> QED BY <2>1, <2>2, <2>3 DEF AdapterTypes, LifeTypeOK
<1> QED BY <1>1, LifeAlways, PTL

\* Nothing is released more often than it was referenced, and the device extension,
\* PortCls's power management and the topology miniport never call an adapter that is
\* gone, in every order in which devices start, fail, leave and clients close.
THEOREM UsersAreOutlived == LifeSpec => []AdapterOutlivesItsUsers
<1>1. LifeInv => AdapterOutlivesItsUsers
  <2> SUFFICES ASSUME LifeInv PROVE AdapterOutlivesItsUsers
    OBVIOUS
  <2>1. /\ heap \in HeapType /\ AdapterTypes
        /\ HolderTypes(PortHolders, MiniportHolders, AdapterHolders)
        /\ Counts(heap, PortHolders, MiniportHolders, AdapterHolders)
    BY HoldersType DEF LifeInv, Balanced
  <2>2. /\ \A f \in Filters : heap.port[f] >= 0 /\ heap.miniport[f] >= 0
        /\ \A a \in Adapters : heap.adapter[a] >= 0
    BY <2>1 DEF HeapType
  <2>3. ASSUME NEW a \in Adapters,
               \/ common[a[1]] = a[2] \/ a \in powered
               \/ heap.miniport[Topology(a)] > 0
        PROVE  heap.adapter[a] > 0
    <3>1. heap.adapter[a] = AdapterHolders[a] + One(heap.miniport[Topology(a)] > 0)
          /\ AdapterHolders[a] \in Nat
      BY <2>1 DEF Counts, HolderTypes
    <3>2. common[a[1]] = a[2] \/ a \in powered => AdapterHolders[a] > 0
      BY DEF AdapterHolders, One
    <3> QED BY <2>3, <3>1, <3>2 DEF One
  <2> QED BY <2>2, <2>3 DEF AdapterOutlivesItsUsers, Topology
<1> QED BY <1>1, LifeAlways, PTL

\* When every device has left, PortCls has let go and the last handle is closed, no
\* adapter is left, so that the next StartDevice is not refused as busy, unless an
\* allocation failed and kept the instance: Cleanup always breaks the circle through the
\* cache.  The circle of port and miniport is the other one: that it is broken is what
\* PortCls is assumed to do, as Quiet says (children = {}).
THEOREM AdaptersAreReleased == LifeSpec => []AdapterIsReleased
<1>1. LifeInv => AdapterIsReleased
  <2> SUFFICES ASSUME LifeInv, Quiet PROVE heap.instances = refused
    BY DEF AdapterIsReleased
  <2>1. /\ AdapterTypes /\ Owners
        /\ HolderTypes(PortHolders, MiniportHolders, AdapterHolders)
        /\ Counts(heap, PortHolders, MiniportHolders, AdapterHolders) /\ Instances(heap)
    BY HoldersType DEF LifeInv, Balanced
  <2>2. \A d \in Devices : /\ common[d] = 0 /\ dev[d] # "starting"
                           /\ start[d].out = {}
    <3> TAKE d \in Devices
    <3>1. common[d] = 0 /\ dev[d] # "starting"
      BY DEF Quiet
    <3> QED BY <3>1 DEF LifeInv, StartOf
  <2>3. \A a \in Adapters : /\ ~Owned(a) /\ a \notin powered /\ cache[a] = {}
                            /\ \A k \in Kinds : <<a, k>> \notin registered
    BY <2>1, <2>2, AdapterParts DEF Owned, Owners, Quiet
  <2>4. ASSUME NEW f \in Filters PROVE heap.port[f] = 0 /\ heap.miniport[f] = 0
    <3>1. f[1] \in Adapters /\ f[1][1] \in Devices /\ f[2] \in Kinds /\ f = <<f[1], f[2]>>
      BY FilterParts
    <3>2. f \notin registered /\ f \notin children /\ ~Cached(f) /\ ~Out(f)
      BY <2>2, <2>3, <3>1 DEF Cached, Out, Quiet
    <3>3. Users(f) = 0
      <4>1. Opened(f) = {}
        BY NoFilterAssumption DEF Quiet, Opened
      <4> QED BY <4>1, UsersNone
    <3>4. PortHolders[f] = 0 /\ MiniportHolders[f] = 0
      BY <2>1, <3>2, <3>3, HoldersOf DEF One
    <3> QED BY <2>1, <3>4 DEF Counts, One
  <2>5. ASSUME NEW a \in Adapters PROVE heap.adapter[a] = 0
    <3>1. a[1] \in Devices /\ a[2] # 0 /\ Topology(a) \in Filters
      BY AdapterParts
    <3>2. AdapterHolders[a] = 0
      BY <2>2, <2>3, <3>1 DEF AdapterHolders, One, Starting
    <3> QED BY <2>1, <2>4, <3>1, <3>2 DEF Counts, One
  <2> QED BY <2>1, <2>5 DEF Instances
<1> QED BY <1>1, LifeAlways, PTL

\* A device that failed to start shows no filter and caches and connects none; one that
\* started has its wave filter, for every way the steps of StartDevice fail.
THEOREM StartsAreHonest == LifeSpec => []StartIsHonest
<1>1. LifeInv => StartIsHonest
  <2> SUFFICES ASSUME LifeInv, NEW d \in Devices
               PROVE  /\ dev[d] = "failed" /\ common[d] # 0 =>
                           /\ registered \intersect ({Latest(d)} \X Kinds) = {}
                           /\ cache[Latest(d)] = {} /\ Latest(d) \notin bridged
                      /\ dev[d] = "started" => Filter(d, "wave") \in registered
    BY DEF StartIsHonest
  <2>1. StartTells(d) /\ AdapterTypes /\ Owners
    BY DEF LifeInv
  <2>2. dev[d] = "started" => Filter(d, "wave") \in registered
    BY <2>1 DEF StartTells
  <2>3. ASSUME dev[d] = "failed", common[d] # 0
        PROVE  /\ registered \intersect ({Latest(d)} \X Kinds) = {}
               /\ cache[Latest(d)] = {} /\ Latest(d) \notin bridged
    <3>1. /\ Latest(d) \notin bridged
          /\ \A k \in Kinds : Filter(d, k) \notin registered /\ k \notin cache[Latest(d)]
      BY <2>1, <2>3 DEF StartTells
    <3>2. Latest(d) \in Adapters
      <4>1. starts[d] > 0
        BY <2>1, <2>3 DEF Owners, AdapterTypes
      <4> QED BY <2>1, <4>1, LatestParts
    <3>3. cache[Latest(d)] \subseteq Kinds
      BY <2>1, <3>2 DEF AdapterTypes
    <3>4. \A f \in {Latest(d)} \X Kinds : f = Filter(d, f[2]) /\ f[2] \in Kinds
      BY DEF Filter
    <3>5. registered \intersect ({Latest(d)} \X Kinds) = {}
      BY <3>1, <3>4
    <3>6. cache[Latest(d)] = {}
      BY <3>1, <3>3
    <3> QED BY <3>1, <3>5, <3>6
  <2> QED BY <2>2, <2>3
<1> QED BY <1>1, LifeAlways, PTL

\* m_ulSystemAllocated is the number of streams that are open, whatever became of the
\* streams whose Init failed and of the device they were opened on.
THEOREM StreamCountIsRight == LifeSpec => []StreamsAreCounted
<1>1. LifeInv => StreamsAreCounted
  BY DEF LifeInv, Streams, Users, Opened, StreamsAreCounted
<1> QED BY <1>1, LifeAlways, PTL
=============================================================================
