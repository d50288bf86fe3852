------------------------------ MODULE PicoLink ------------------------------
(***************************************************************************)
(* The Pico link: the second sink the feeder thread hands every block to   *)
(* is a ring whose worker thread renders it to a USB endpoint that comes   *)
(* and goes.                                                               *)
(*                                                                         *)
(* The ring is modelled in blocks; what a read of part of a block does is  *)
(* in SpscRing, whose algorithm it shares.  The endpoint and the news      *)
(* about it are external: news reaches whoever is registered, some time    *)
(* after the event.                                                        *)
(***************************************************************************)
EXTENDS Naturals, FiniteSetsExt

CONSTANTS
  Cap,          \* capacity of the ring, in blocks
  StaleBacklog, \* backlog above which the reader starts afresh
  MaxRender,    \* blocks the endpoint takes at once
  MaxBlocks,    \* bound: blocks the feeder pulls
  MaxEvents     \* bound: removals of the endpoint and news of other endpoints

ASSUME PicoAssumption ==
  /\ Cap \in Nat \ {0} /\ StaleBacklog \in Nat /\ StaleBacklog < Cap
  /\ MaxRender \in Nat \ {0} /\ MaxBlocks \in Nat /\ MaxEvents \in Nat

VARIABLES
  feeder,    \* [pc, block, tag, write]: a tick of VirtualMicFeeder
  sink,      \* [connected, generation, read, write, mem]: PicoVirtualMicSink
  worker,    \* [pc, next, want, old, raced]: PicoUsbWorker
  device,    \* [client, started, notify, needsReopen]: WasapiPicoRenderDevice
  endpoint,  \* [present, note]: the USB endpoint, and undelivered news
  stopping,  \* how far the teardown is: "no", "feeder" or "worker"
  races,     \* history: resets by the worker during a write of the feeder, to 2
  events     \* how many there were

linkVars == <<feeder, sink, worker, device, endpoint, stopping, races, events>>

\* A slot knows only whether what it holds was written for an earlier connection.
All(age) == [i \in 0..Cap - 1 |-> age]
AvailableBlocks(ring) == ring.write - ring.read

\* The generation of the feeder is that of the driver's CONNECT, or its own first
\* one for a ring that no driver knows of (0).  The worker was started before.
LinkInit ==
  /\ feeder = [pc |-> "idle", block |-> 0, tag |-> "now", write |-> 0]
  /\ sink = [connected |-> TRUE, generation |-> 0, read |-> 0, write |-> 0, mem |-> All("now")]
  /\ worker = [pc |-> "top", next |-> "top", want |-> 0, old |-> FALSE, raced |-> FALSE]
  /\ device = [client |-> "none", started |-> FALSE, notify |-> FALSE, needsReopen |-> FALSE]
  /\ \E p \in BOOLEAN : endpoint = [present |-> p, note |-> FALSE]
  /\ stopping = "no"
  /\ races = 0 /\ events = 0

Generation == 1

----------------------------------------------------------------------------
(* The feeder's tick: FanoutCaptureSink, first the driver, then the Pico. *)

InTick(place) ==
  /\ feeder.pc = place
  /\ UNCHANGED <<worker, device, endpoint, stopping, races, events>>

FeederAt(place) == [feeder EXCEPT !.pc = place]

Pulls ==
  /\ InTick("idle")
  /\ stopping = "no" /\ feeder.block < MaxBlocks
  /\ feeder' = [FeederAt("pico") EXCEPT !.block = @ + 1]
  /\ UNCHANGED sink

\* PicoVirtualMicSink::writeMono.  What it writes belongs to the connection it saw.
SinkEnters ==
  /\ InTick("pico")
  /\ feeder' = [feeder EXCEPT !.tag = "now",
                  !.pc = IF ~sink.connected THEN "idle"
                         ELSE IF sink.generation # Generation THEN "flushread"
                         ELSE "load"]
  /\ UNCHANGED sink

FlushesReadHead ==
  /\ InTick("flushread")
  /\ sink' = [sink EXCEPT !.read = 0]
  /\ feeder' = FeederAt("flushwrite")

BadFlushesWriteHead ==
  /\ InTick("flushwrite")
  /\ sink' = [sink EXCEPT !.write = 0]
  /\ feeder' = FeederAt("load")

FlushesWriteHead ==
  /\ InTick("flushwrite")
  /\ sink' = [sink EXCEPT !.write = 0, !.generation = Generation]
  /\ feeder' = FeederAt("load")

SinkLoads ==
  /\ InTick("load")
  /\ feeder' = [feeder EXCEPT !.write = sink.write,
                  !.pc = IF AvailableBlocks(sink) < Cap THEN "copy" ELSE "idle"]
  /\ UNCHANGED sink

SinkCopies ==
  /\ InTick("copy")
  /\ sink' = [sink EXCEPT !.mem[feeder.write % Cap] = feeder.tag]
  /\ feeder' = FeederAt("sinkpublish")

\* fetch_add moves the head that is there now: after a reset in the middle of the write it
\* shows the first slot, wherever the block was copied to.
SinkPublishes ==
  /\ InTick("sinkpublish")
  /\ sink' = [sink EXCEPT !.write = @ + 1]
  /\ feeder' = FeederAt("idle")

Feeder ==
  \/ Pulls \/ SinkEnters \/ FlushesReadHead \/ FlushesWriteHead
  \/ SinkLoads \/ SinkCopies \/ SinkPublishes

Writing == feeder.pc \in {"flushread", "flushwrite", "load", "copy", "sinkpublish"}

----------------------------------------------------------------------------
(* PicoUsbWorker *)

InWorker(place) ==
  /\ worker.pc = place
  /\ UNCHANGED <<feeder, endpoint, stopping, events>>

Goes(place) == worker' = [worker EXCEPT !.pc = place]

Alive == device.client = "live"
IsOpen == device.client # "none" /\ device.started

Loops ==
  /\ InWorker("top")
  /\ Goes(IF stopping = "worker" THEN "exit" ELSE IF IsOpen THEN "needs" ELSE "open")
  /\ UNCHANGED <<sink, device, races>>

\* WasapiPicoRenderDevice::open: the endpoint is found, its client activated ...
Discovers ==
  /\ InWorker("open")
  /\ device' = [device EXCEPT !.client = IF endpoint.present THEN "live" ELSE "none"]
  /\ Goes(IF endpoint.present THEN "register" ELSE "failed")
  /\ UNCHANGED <<sink, races>>

\* ... its notifications are registered for ...
Registers ==
  /\ InWorker("register")
  /\ device' = [device EXCEPT !.notify = TRUE]
  /\ Goes("start")
  /\ UNCHANGED <<sink, races>>

Closed == [client |-> "none", started |-> FALSE, notify |-> FALSE, needsReopen |-> FALSE]

\* ... and it is started, unless it is gone by then.
StartsClient ==
  /\ InWorker("start")
  /\ device' = IF Alive THEN [device EXCEPT !.started = TRUE] ELSE Closed
  /\ Goes(IF Alive THEN "clear" ELSE "failed")
  /\ UNCHANGED <<sink, races>>

ClearsFlag ==
  /\ InWorker("clear")
  /\ device' = [device EXCEPT !.needsReopen = FALSE]
  /\ Goes("connect")
  /\ UNCHANGED <<sink, races>>

\* PicoVirtualMicSink::setConnected, by the worker.  A disconnect makes what the ring
\* holds, and the block being written, that of an earlier connection.
Connection(value) ==
  IF sink.connected /\ ~value
    THEN /\ sink' = [sink EXCEPT !.connected = FALSE, !.mem = All("old")]
         /\ feeder' = [feeder EXCEPT !.tag = "old"]
    ELSE /\ sink' = [sink EXCEPT !.connected = value]
         /\ UNCHANGED feeder

InSetConnected(place) ==
  /\ worker.pc = place
  /\ UNCHANGED <<device, endpoint, stopping, races, events>>

BadSetsConnected(place, value, next) ==
  /\ InSetConnected(place)
  /\ Connection(value)
  /\ worker' = [worker EXCEPT !.next = next,
                              !.pc = IF value THEN next ELSE "resetread"]

SetsConnected(place, value, next) ==
  /\ InSetConnected(place)
  /\ Connection(value)
  /\ worker' = [worker EXCEPT !.next = next,
                              !.pc = IF sink.connected = value THEN next ELSE "resetread"]

ResetsReadHead ==
  /\ InWorker("resetread")
  /\ sink' = [sink EXCEPT !.read = 0]
  /\ worker' = [worker EXCEPT !.pc = "resetwrite", !.raced = Writing]
  /\ UNCHANGED <<device, races>>

ResetsWriteHead ==
  /\ InWorker("resetwrite")
  /\ sink' = [sink EXCEPT !.write = 0]
  /\ worker' = [worker EXCEPT !.pc = worker.next, !.next = "top", !.raced = FALSE]
  /\ races' = IF (worker.raced \/ Writing) /\ races < 2 THEN races + 1 ELSE races
  /\ UNCHANGED device

ChecksNeeds ==
  /\ InWorker("needs")
  /\ Goes(IF device.needsReopen THEN "close" ELSE "wait")
  /\ UNCHANGED <<sink, device, races>>

\* The event, a reason to close, or the 50 ms.
Waits ==
  /\ InWorker("wait")
  /\ IF device.needsReopen THEN Goes("close") ELSE Goes("padding") \/ Goes("top")
  /\ UNCHANGED <<sink, device, races>>

\* availableRenderFrames, and the sink's own.
AsksPadding ==
  /\ InWorker("padding")
  /\ IF ~Alive \/ device.needsReopen
       THEN Goes("close")
       ELSE \/ Goes("top")
            \/ worker' = [worker EXCEPT !.pc = "drain", !.old = FALSE,
                            !.want = Min({MaxRender, AvailableBlocks(sink)})]
  /\ UNCHANGED <<sink, device, races>>

\* readMono: a stale backlog is discarded, then a block is taken or nothing.
Fresh == IF AvailableBlocks(sink) > StaleBacklog THEN [sink EXCEPT !.read = sink.write]
         ELSE sink

Reads ==
  /\ InWorker("drain") /\ worker.want > 0
  /\ IF AvailableBlocks(Fresh) = 0
       THEN sink' = Fresh /\ worker' = [worker EXCEPT !.want = 0]
       ELSE /\ sink' = [Fresh EXCEPT !.read = @ + 1]
            /\ worker' = [worker EXCEPT !.want = @ - 1,
                            !.old = @ \/ sink.mem[Fresh.read % Cap] = "old"]
  /\ UNCHANGED <<device, races>>

Drained ==
  /\ InWorker("drain") /\ worker.want = 0
  /\ Goes("submit")
  /\ UNCHANGED <<sink, device, races>>

\* A lost endpoint is noticed by the padding again, or by the buffer.
Submits ==
  /\ InWorker("submit")
  /\ \/ /\ worker' = [worker EXCEPT !.pc = "top", !.old = FALSE]
        /\ device' = [device EXCEPT !.needsReopen = @ \/ ~Alive]
     \/ /\ ~Alive
        /\ worker' = [worker EXCEPT !.pc = "close", !.old = FALSE]
        /\ UNCHANGED device
  /\ UNCHANGED <<sink, races>>

\* WasapiPicoRenderDevice::close
Closes(place, next) ==
  /\ InWorker(place)
  /\ device' = Closed
  /\ Goes(next)
  /\ UNCHANGED <<sink, races>>

Worker ==
  \/ Loops \/ Discovers \/ Registers \/ StartsClient \/ ClearsFlag
  \/ SetsConnected("connect", TRUE, "needs") \/ SetsConnected("failed", FALSE, "top")
  \/ SetsConnected("disconnect", FALSE, "top") \/ ResetsReadHead \/ ResetsWriteHead
  \/ ChecksNeeds \/ Waits \/ AsksPadding \/ Reads \/ Drained \/ Submits
  \/ Closes("close", "disconnect") \/ Closes("exit", "exited")

----------------------------------------------------------------------------
(* The endpoint and the teardown *)

Outside == UNCHANGED <<feeder, sink, worker, races>>

News == device.notify

Removed ==
  /\ endpoint.present /\ events < MaxEvents
  /\ events' = events + 1
  /\ endpoint' = [endpoint EXCEPT !.present = FALSE, !.note = @ \/ News]
  /\ device' = [device EXCEPT !.client = IF Alive THEN "dead" ELSE @]
  /\ UNCHANGED stopping /\ Outside

\* An endpoint does not leave and come back in the few instructions after Start().
Returns ==
  /\ ~endpoint.present /\ worker.pc # "clear"
  /\ endpoint' = [present |-> TRUE, note |-> endpoint.note \/ News]
  /\ UNCHANGED <<device, stopping, events>> /\ Outside

\* The state of some other endpoint changed; the client does not look which.
OtherChanged ==
  /\ News /\ ~endpoint.note /\ events < MaxEvents
  /\ events' = events + 1
  /\ endpoint' = [endpoint EXCEPT !.note = TRUE]
  /\ UNCHANGED <<device, stopping>> /\ Outside

\* OnDeviceStateChanged, OnDeviceRemoved; nothing once it was unregistered.
BadNotified ==
  /\ endpoint.note
  /\ endpoint' = [endpoint EXCEPT !.note = FALSE]
  /\ device' = [device EXCEPT !.needsReopen = @ \/ (News /\ ~endpoint.present)]
  /\ UNCHANGED <<stopping, events>> /\ Outside

Notified ==
  /\ endpoint.note
  /\ endpoint' = [endpoint EXCEPT !.note = FALSE]
  /\ device' = [device EXCEPT !.needsReopen = @ \/ News]
  /\ UNCHANGED <<stopping, events>> /\ Outside

\* The feeder is detached and joined, then the worker is told to stop and woken.
StopsFeeder ==
  /\ stopping = "no"
  /\ stopping' = "feeder"
  /\ UNCHANGED <<device, endpoint, events>> /\ Outside

StopsWorker ==
  /\ stopping = "feeder" /\ feeder.pc = "idle"
  /\ stopping' = "worker"
  /\ UNCHANGED <<device, endpoint, events>> /\ Outside

LinkNext ==
  \/ Feeder \/ Worker
  \/ Removed \/ Returns \/ OtherChanged \/ Notified \/ StopsFeeder \/ StopsWorker

\* Feeder and worker go on, and news is delivered.
LinkFairness == WF_linkVars(Feeder) /\ WF_linkVars(Worker) /\ WF_linkVars(Notified)

LinkSpec == LinkInit /\ [][LinkNext]_linkVars /\ LinkFairness

----------------------------------------------------------------------------
(* Properties *)

\* Every variable has its type, and the ring's read head never passes its write head.
LinkTypeOK ==
  /\ feeder.block \in 0..MaxBlocks /\ feeder.write \in 0..MaxBlocks
  /\ sink.write \in 0..MaxBlocks /\ sink.read \in 0..sink.write
  /\ sink.mem \in [0..Cap - 1 -> {"now", "old"}]
  /\ worker.want \in 0..MaxRender
  /\ device \in [client : {"none", "live", "dead"}, started : BOOLEAN,
                 notify : BOOLEAN, needsReopen : BOOLEAN]
  /\ endpoint \in [present : BOOLEAN, note : BOOLEAN]
  /\ stopping \in {"no", "feeder", "worker"}
  /\ races \in 0..2 /\ events \in 0..MaxEvents

\* A block that was written for an earlier connection is rendered after a reconnect
\* only if the feeder was in the middle of a write at two of the worker's resets.  The
\* comment at PicoVirtualMicSink.cpp:67 says never; two such resets do it, one does not.
OldPcmNeedsTwoRaces == worker.pc = "submit" /\ worker.old => races = 2

\* An endpoint that stays is rendered to in the end, wherever in an open or a close
\* it went away and came back.
Reconnects ==
  <>[](endpoint.present) => <>[](stopping # "no" \/ (sink.connected /\ IsOpen /\ Alive))
=============================================================================
