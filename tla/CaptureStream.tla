--------------------------- MODULE CaptureStream ---------------------------
(***************************************************************************)
(* The capture stream of the kernel driver, CMiniportWaveRTStream.  No     *)
(* hardware fills its buffer: a millisecond timer and every question for   *)
(* the position do, each from a clock of its own that outlives pauses.     *)
(*                                                                         *)
(* Time and bytes have one unit, half a millisecond: the driver moves whole*)
(* milliseconds and keeps the rest.  A slot of the buffer holds the linear *)
(* position it was filled for, or Old; what audio that is is up to         *)
(* CaptureControl and SpscRing.  The port and its clients are external.    *)
(***************************************************************************)
EXTENDS Integers, FiniteSetsExt

CONSTANTS
  Buffers,  \* [ticks, count]: the buffers clients ask for, count 0 for polling
  MaxTime   \* bound: ticks of time

Ms == 2     \* ticks in a millisecond

ASSUME StreamAssumption ==
  /\ \A b \in Buffers : /\ b.ticks \in Nat \ {0} /\ b.ticks % Ms = 0
                        /\ b.count \in Nat
                        /\ b.count > 0 => b.ticks % b.count = 0
  /\ MaxTime \in Nat

VARIABLES
  state,     \* m_KsState
  setting,   \* where SetState is, "idle" outside it
  buffer,    \* [ticks, count, interval]: the DMA buffer, 0 ticks for none
  mem,       \* what is in the buffer
  dma,       \* [stamp, carry, linear, position]: the clock of the positions
  packet,    \* [stamp, carry, count]: the clock of the packets
  timer,     \* [on, due, queued]: the timer and its DPC
  lastRead,  \* m_ulLastOsReadPacket
  reading,   \* the number GetReadPacket is about to return, or None
  now,       \* the performance counter
  left,      \* history: packet.carry at the last stop
  held       \* history: time since then in which pauses were held up, once the time of
             \* the packets was saved

port == <<lastRead, reading>>
vars == <<state, setting, buffer, mem, dma, packet, timer, port, now, left, held>>

Old == -1
ULONG_MAX == -1  \* what a packet counter of 0 less 1 is, and the last one read at a stop
None == -2
NoBuffer == [ticks |-> 0, count |-> 0, interval |-> 0]
Filled(size) == [s \in 0..size - 1 |-> Old]

Init ==
  /\ state = "stop" /\ setting = "idle"
  /\ buffer = NoBuffer /\ mem = Filled(0)
  /\ dma = [stamp |-> 0, carry |-> 0, linear |-> 0, position |-> 0]
  /\ packet = [stamp |-> 0, carry |-> 0, count |-> 0]
  /\ timer = [on |-> FALSE, due |-> 0, queued |-> FALSE]
  /\ lastRead = ULONG_MAX /\ reading = None
  /\ now = 0 /\ left = 0 /\ held = 0

Milliseconds(t) == (t \div Ms) * Ms

\* AllocateBufferWithNotification, AllocateAudioBuffer: polling leaves the interval
\* of an earlier buffer behind.
AllocateBuffer ==
  /\ state = "stop" /\ setting = "idle" /\ buffer.ticks = 0
  /\ \E b \in Buffers :
       /\ buffer' = [ticks |-> b.ticks, count |-> b.count,
                     interval |-> IF b.count = 0 THEN buffer.interval
                                  ELSE Milliseconds(b.ticks \div b.count)]
       /\ mem' = Filled(b.ticks)
  /\ UNCHANGED <<state, setting, dma, packet, timer, port, now, left, held>>

FreeBuffer ==
  /\ state = "stop" /\ setting = "idle" /\ buffer.ticks > 0
  /\ buffer' = [buffer EXCEPT !.ticks = 0, !.count = 0]
  /\ mem' = Filled(0)
  /\ UNCHANGED <<state, setting, dma, packet, timer, port, now, left, held>>

----------------------------------------------------------------------------
(* UpdatePosition and its WriteBytes, under the position lock *)

Elapsed == now - dma.stamp + dma.carry

Advanced ==
  [stamp |-> now, carry |-> Elapsed % Ms,
   linear |-> dma.linear + Milliseconds(Elapsed),
   position |-> (dma.position + Milliseconds(Elapsed)) % buffer.ticks]

BadWriteBytes(to) ==
  LET Fills(s) == {l \in dma.linear..to - 1 : l - dma.linear = s}
  IN  mem' = [s \in DOMAIN mem |-> IF Fills(s) = {} THEN mem[s] ELSE Max(Fills(s))]

WriteBytes(to) ==
  LET Fills(s) == {l \in dma.linear..to - 1 : l % buffer.ticks = s}
  IN  mem' = [s \in DOMAIN mem |-> IF Fills(s) = {} THEN mem[s] ELSE Max(Fills(s))]

UpdatePosition == dma' = Advanced /\ WriteBytes(Advanced.linear)

\* GetPosition and GetPositions, from a client.
GetPosition ==
  /\ state = "run"
  /\ UpdatePosition
  /\ UNCHANGED <<state, setting, buffer, packet, timer, port, now, left, held>>

\* GetReadPacket: the counter is read under the lock ...
ReadsCounter ==
  /\ buffer.count > 0 /\ state \in {"pause", "run"} /\ reading = None
  /\ packet.count - 1 # lastRead
  /\ reading' = packet.count - 1
  /\ UNCHANGED <<state, setting, buffer, mem, dma, packet, timer, lastRead, now, left, held>>

\* ... and the number is remembered outside it.
ReturnsPacket ==
  /\ reading # None
  /\ lastRead' = reading /\ reading' = None
  /\ UNCHANGED <<state, setting, buffer, mem, dma, packet, timer, now, left, held>>

----------------------------------------------------------------------------
(* The timer and TimerNotifyRT *)

Expires ==
  /\ timer.on /\ timer.due <= now
  /\ timer' = [on |-> TRUE, due |-> timer.due + Ms, queued |-> TRUE]
  /\ UNCHANGED <<state, setting, buffer, mem, dma, packet, port, now, left, held>>

SinceLastPacket == now - packet.stamp + packet.carry

TimerNotifyRT ==
  /\ timer.queued
  /\ timer' = [timer EXCEPT !.queued = FALSE]
  /\ IF Milliseconds(SinceLastPacket) >= buffer.interval
       THEN /\ packet' = [stamp |-> now, carry |-> SinceLastPacket - buffer.interval,
                          count |-> packet.count + 1]
            /\ UpdatePosition
       ELSE UNCHANGED <<packet, dma, mem>>
  /\ UNCHANGED <<state, setting, buffer, port, now, left, held>>

\* The timer expires in time; its DPC, and SetState, may be held up anywhere.
EndsPause == setting \in {"positions", "pause"}

Time ==
  /\ now < MaxTime /\ ~(timer.on /\ timer.due <= now)
  /\ now' = now + 1
  /\ held' = IF EndsPause THEN held + 1 ELSE held
  /\ UNCHANGED <<state, setting, buffer, mem, dma, packet, timer, port, left>>

----------------------------------------------------------------------------
(* SetState.  The port goes from state to state one by one, and not without a   *)
(* buffer.                                                                      *)

Sets(from, to) ==
  /\ state = from /\ setting = "idle"
  /\ state' = to
  /\ UNCHANGED <<setting, buffer, timer, reading, now>>

Acquire ==
  /\ \/ buffer.ticks > 0 /\ Sets("stop", "acquire")
     \/ Sets("acquire", "pause") \/ Sets("pause", "acquire")
  /\ UNCHANGED <<mem, dma, packet, lastRead, left, held>>

\* The positions and the counter start again; neither of the carries does.
Stop ==
  /\ Sets("acquire", "stop")
  /\ packet' = [packet EXCEPT !.count = 0]
  /\ dma' = [dma EXCEPT !.linear = 0, !.position = 0]
  /\ lastRead' = ULONG_MAX
  /\ mem' = Filled(buffer.ticks)
  /\ left' = packet.carry /\ held' = 0

\* Run: both clocks are stamped and the timer is set, then the state is.
BadRunStarts ==
  /\ state = "pause" /\ setting = "idle"
  /\ setting' = "run"
  /\ dma' = [dma EXCEPT !.stamp = now]
  /\ UNCHANGED packet
  /\ timer' = IF buffer.interval > 0 THEN [timer EXCEPT !.on = TRUE, !.due = now + Ms]
              ELSE timer
  /\ UNCHANGED <<state, buffer, mem, port, now, left, held>>

RunStarts ==
  /\ state = "pause" /\ setting = "idle"
  /\ setting' = "run"
  /\ dma' = [dma EXCEPT !.stamp = now]
  /\ packet' = [packet EXCEPT !.stamp = now]
  /\ timer' = IF buffer.interval > 0 THEN [timer EXCEPT !.on = TRUE, !.due = now + Ms]
              ELSE timer
  /\ UNCHANGED <<state, buffer, mem, port, now, left, held>>

RunIsSet ==
  /\ setting = "run"
  /\ state' = "run" /\ setting' = "idle"
  /\ UNCHANGED <<buffer, mem, dma, packet, timer, port, now, left, held>>

\* Pause, from run: the timer is cancelled and the queued DPC waited for, then the
\* time since the last packet is saved ...
PauseStarts ==
  /\ state = "run" /\ setting = "idle"
  /\ setting' = IF buffer.interval > 0 THEN "flush" ELSE "positions"
  /\ timer' = [on |-> FALSE, due |-> 0, queued |-> timer.queued]
  /\ UNCHANGED <<state, buffer, mem, dma, packet, port, now, left, held>>

BadPauseFlushes ==
  /\ setting = "flush"
  /\ setting' = "positions"
  /\ packet' = [packet EXCEPT !.carry = SinceLastPacket]
  /\ UNCHANGED <<state, buffer, mem, dma, timer, port, now, left, held>>

PauseFlushes ==
  /\ setting = "flush" /\ ~timer.queued
  /\ setting' = "positions"
  /\ packet' = [packet EXCEPT !.carry = SinceLastPacket]
  /\ UNCHANGED <<state, buffer, mem, dma, timer, port, now, left, held>>

\* ... the positions are brought up to date, and the state is set.
PausePositions ==
  /\ setting = "positions"
  /\ setting' = "pause"
  /\ UpdatePosition
  /\ UNCHANGED <<state, buffer, packet, timer, port, now, left, held>>

PauseIsSet ==
  /\ setting = "pause"
  /\ state' = "pause" /\ setting' = "idle"
  /\ UNCHANGED <<buffer, mem, dma, packet, timer, port, now, left, held>>

SetState ==
  \/ Acquire \/ Stop \/ RunStarts \/ RunIsSet
  \/ PauseStarts \/ PauseFlushes \/ PausePositions \/ PauseIsSet

Next ==
  \/ AllocateBuffer \/ FreeBuffer \/ GetPosition \/ ReadsCounter \/ ReturnsPacket
  \/ Expires \/ TimerNotifyRT \/ Time \/ SetState

Spec == Init /\ [][Next]_vars

----------------------------------------------------------------------------
(* Properties *)

\* Every variable has its type, and the position in the buffer is that of the bytes
\* moved since the stream started.
TypeOK ==
  /\ state \in {"stop", "acquire", "pause", "run"}
  /\ setting \in {"idle", "run", "flush", "positions", "pause"}
  /\ mem \in [0..buffer.ticks - 1 -> Old..MaxTime]
  /\ dma.carry \in 0..Ms - 1 /\ dma.stamp \in 0..now
  /\ dma.linear \in 0..MaxTime + Ms
  /\ dma.position = IF dma.linear = 0 THEN 0 ELSE dma.linear % buffer.ticks
  /\ packet.carry \in 0..MaxTime /\ packet.stamp \in 0..now /\ packet.count \in 0..MaxTime
  /\ lastRead \in ULONG_MAX..MaxTime /\ reading \in None..MaxTime
  /\ held \in 0..MaxTime

\* The timer never fires, and no DPC is left to run, on a stream whose buffer may be
\* freed: its fill would write there and divide by a size of 0.
DpcHasItsBuffer == timer.on \/ timer.queued => buffer.ticks > 0 /\ state \in {"pause", "run"}

\* A packet is counted only when the buffer was filled for the whole interval, however
\* the stream was paused meanwhile.  The packets after a stop start with the time left
\* from before it, which counts as filled.
PacketsAreComplete == packet.count * buffer.interval <= dma.linear + dma.carry + left

\* The packet a client would be handed is in the buffer, all of it and nothing else: for
\* buffers of several packets of whole milliseconds, unless the clock of the packets was
\* left from before a stop, or is late by all the packets but one.  It is late by what
\* its DPC has still to count and, for good, by all the time the pauses were held up in:
\* the positions moved on then, the packets did not.
Size == buffer.ticks \div buffer.count
Overdue == IF <<state, setting>> = <<"pause", "idle">> \/ EndsPause THEN packet.carry
           ELSE SinceLastPacket
Readable ==
  /\ buffer.count > 1 /\ Size = buffer.interval /\ left = 0
  /\ packet.count > 0 /\ packet.count - 1 # lastRead
ReadableIsIntact ==
  Readable /\ Overdue + held < (buffer.count - 1) * Size =>
    \A l \in (packet.count - 1) * Size..packet.count * Size - 1 :
      mem[l % buffer.ticks] = l
=============================================================================
