# Audient Console in TLA+

Audient Console is a Windows application (C++20) that takes the microphone
inputs of an Audient interface from ASIO, runs VST3 plug-ins on them in the
audio callback, and offers the result to the system as a virtual microphone,
through a kernel driver of its own or a USB gadget. Its correctness rests on
hand-overs between one realtime thread that may never wait and several ordinary
threads that come and go, on a stream that is torn down and rebuilt under all of
them, and on a driver that shares memory with its clients. This directory models
these, checks them with TLC and proves the main results with TLAPS.

Paths below are those of the repository; `src/` is its source directory.

## The system

| Part (directory) | State it keeps | Operations | Talks to |
|---|---|---|---|
| capture transport (`src/engine/RingBuffer`, `src/transport/VirtualCaptureTransport`) | a ring of samples, two heads, counters | write, read, fresh read (discards a stale backlog), reset | callback writes; feeder or endpoint reads; control resets |
| plug-in chain (`src/vst3/Vst3Chain`) | atomic pointer to an immutable snapshot, block counter, retired snapshots | process (callback); publish, reap, settled, shutdown (control) | runs the processors an owner keeps |
| production chain owner (`src/production/ChannelVstChain`, `src/channel/ChannelRack`) | rack, live bundles, retiring bundles, editors, bypass flags | load, remove, move, bypass, editors, service, shutdown | publishes to its `Vst3Chain` |
| daily chain (`src/app/daily_demo_main.cpp`) | two lists of slots, two lists of removed ones, selections, one editor | keys, panel buttons, service each turn of the loop | publishes to two `Vst3Chain`s |
| mixer state (`src/app/DailyMixerState`, `saveMixerState`) | the inserts last saved, those that could not be loaded, a dirty flag; `mixer-state.json` and a file for each plug-in's state | autosave, save at quit, load at start | reads the daily chain; disk |
| ASIO backend and recovery (`src/asio`, session and watchdog of `daily_demo_main.cpp`) | device state, native driver, fade; recovery controller, watchdog baseline, staged buffer request | open, configure, start, stop, dispose; teardown and rebuild | owns the callback |
| routing adapter (`src/asio/AsioRoutingAdapter`, `src/engine/GraphConfigSnapshot.h`) | published channel slots and config under sequence locks, ramps | publish a channel or the config; the callback itself | runs the chains; writes the transport |
| parameter edits (`src/vst3/ParameterEditQueue`, `Vst3Processor`) | queue of edits, those exposed to a block | push (editor), drain and expose (callback) | one per processor |
| feeder (`src/virtual_audio/driver-protocol/VirtualMicFeeder`) | sink pointer, generation, sequence | attach, detach, tick, stop | reads the transport; writes its sinks |
| pico link (`src/pico`) | a second ring, connected flag, generation; the endpoint client and its notifications | write, connect, disconnect, read; open, wait, submit, close | feeder writes; USB worker reads |
| driver ring (`CaptureRingContract.h`, `SharedRingCaptureSink`) | a ring in memory shared with the kernel, connected flag, generation | write, read, attach, detach | feeder writes; DMA fill reads |
| driver control plane (`src/virtual_audio/driver/Source/Main/audientcontrolplane.cpp`, `audientcapturesource.cpp`) | the published region with its references, connected client | connect, flush, query, disconnect, cleanup, PnP pause | hands the region to the DMA fill |
| capture stream (`.../minwavertstream.cpp`) | buffer, position and packet clocks, timer and DPC, state | allocate, free, set state, position, packet; timer | fills a client's buffer |
| adapter (`.../adapter.cpp`, `common.cpp`, `minwavert.cpp`, `basetopo.cpp`) | the one instance, the subdevice cache, reference counts, the stream count | start, stop, removal, pin open and close | PnP, PortCls, clients |
| hardware control, preferences, GUI, VST3 hosting, diagnostics | | I/O, SDK calls, user interface | |

What is hard in it:

* the callback never takes a lock, so that everything it reads may change or be
  freed between two of its accesses;
* removing a plug-in returns at once, and its memory is freed later, when a count
  of blocks shows the callback cannot still be using it;
* a restart, a reconnect or a flush must not let old audio out, although the
  threads on the two sides of a ring are restarted one at a time;
* a stream is lost in the middle of anything, its own rebuild included, and three
  threads may want to tear it down;
* the driver's requests come from several handles, and pages may be taken back
  while a fill reads them;
* driver objects hold each other in two circles, and PortCls and clients let go of
  them late;
* the daily application keeps the same facts (order, selection, open editor, what
  is on disk) in several variables that its many handlers update one by one.

`PROJECT.json` lists these, each at its line, under `hazards`.

## Modules

| Module | Models |
|---|---|
| `SpscRing` | the capture transport: every access of the producer, the consumer and the control thread to the ring |
| `DropNewFifo` | what the transport promises: a bounded drop-new queue of samples, with no heads and no threads |
| `Vst3Chain` | the plug-in chain and the callback that runs it; no specification of its own, it is composed with an owner |
| `ChannelVstChain` | the production owner, composed with `Vst3Chain` |
| `DailyChain` | one input of the daily application, composed with the same `Vst3Chain` |
| `DailyMixer` | what the daily application keeps of that chain on disk; extends `DailyChain` with saves, crashes and starts |
| `AsioStream` | one ASIO stream after another: backend, native driver, adapter and fade, callback; no specification of its own |
| `DailySession` | the program around it: watchdog, main thread, user interface; extends `AsioStream` |
| `RenderControl` | what the user sets of the sound, from the handlers to the callback, through the sequence locks and across rebuilds |
| `ParameterEdits` | one plug-in's parameter edits, from its editor to its processor |
| `ControlPath` | both of these around the same callback and main thread; extends `RenderControl` and `ParameterEdits` |
| `PicoLink` | the Pico sink, the feeder that fills it, the worker that renders it, the endpoint and its notifications |
| `CaptureControl` | the driver's control plane and the reference counts of its region |
| `CaptureStream` | the driver's capture stream: clocks, packets, timer, states |
| `AdapterLife` | start, stop and removal of the driver's devices; the reference counts of its objects; the streams opened on them |
| `MC...` | the instances TLC checks |
| `...Proofs` | the theorems |

A definition named `Bad...` is a plausible mistake in the definition that comes
after it. Nothing uses it: putting it in the place of that definition must make
the property it is meant for fail, which shows that the property depends on the
code.

### SpscRing

`readPos` and `writePos` are `m_readPos` and `m_writePos`; `memory` is `m_memory`.
A call in progress is a record of the thread that makes it (`prod`, `cons`, `ctl`)
with its program counter and the heads it has loaded. `writeBlock` is
`WriteBegin` (load of the other head), `WriteReject` or `WriteAccept`,
`WriteCopy` for each sample and `WritePublish`. `readProcessedMicFresh` is
`ReadBegin` (available and the threshold), `DiscardCheck` and `DiscardSkip`, then
`readBlock`: `ReadEmpty` or `ReadAccept`, `ReadCopy` for each sample,
`ReadPublish`. `reset` is three stores. A sample is its epoch and its place in
the stream; `epoch`, `offered`, `resyncAt` and `served` are history.

`ConsumerQuiet` says whether the caller of `reset` has stopped the consumer. The
class is written for `TRUE`; `AsioRoutingAdapter::requestFadeIn` gives `FALSE`.

Orderings weaker than sequential consistency: each head is stored by one thread
with release and loaded by the other with acquire, and a copied sample is
accessed only between the two, so that the steps of the model are the ones that
can be seen; the relaxed stores of `reset` are seen in order on the x86 the
application is built for.

### Vst3Chain and its owners

`state` is `m_state`, `blocks` is `m_processedBlocks`, `retired` is `m_retired`.
A block of the callback is `CountBlock` (the relaxed increment), `LoadState` (the
acquire load), one `RunSlot` for each slot and `EndBlock`. `publish` is `Publish`
(exchange) and `Stamp` (the load of the counter that dates the old snapshot);
between the two the callback may begin and end blocks. With `LoadOvertakes` the
load of the pointer can be seen before the increment that precedes it in the
code: the increment is relaxed, so the language allows it, and the grace of two
blocks is what makes up for it. `GraceCoversTheBlockInFlight` is that
assumption; `kGraceBlocks` is 2.

The owners add their lists. In `ChannelVstChain` an operation changes them in the
same step as the exchange: nobody but the control thread sees them, and the
control thread does nothing else until `FinishPublish`. `serviceRetirements` is
two steps, `Service` (reap) and `DestroyRetired` (settled, destroy), since blocks
may pass between the two loads of the counter. In `DailyChain` a list that the
chain rejects leaves the chain as it is and the list changed, as `publishChain`
does.

`DailyChain` does not have a shutdown: the application stops the callback first
and then destroys everything. Nothing starts or stops the callback in it, which
is the case where it is hardest on the lists. `Gui` says whether the control
panel is open besides the console: only the panel loads without asking for room.

### DailyMixer

`mixer` is `mixerState`, `missing` the inserts that the start could not load,
`disk` the file `mixer-state.json` and `blobs` the files of the plug-ins' states.
`saveMixerState` is `Autosaves` or `Quits`, a `WritesBlob` for each live plug-in
in any order of success, and `WritesMixer`, which lists the inserts as `Rebuilt`
does: those listed before, in their old order, brought up to date, and the new
ones after them. A crash may come between any two of these: `Restarts` is a crash
followed by the next start, on which any plug-in may be missing, or the file may
be unreadable or not be asked for (`--no-vst-restore`). Such a start begins with
an empty mixer, and its first save replaces the file that was there: what
`MissingAreKept` protects are the plug-ins of a file that was read.

A file is replaced as one step, since the code writes a temporary one, flushes it
and renames it. An insert's id on disk is that of its plug-in. `Rebuilt` keeps the
order of the inserts that were listed before, so that an order changed by a move
is not the one that is restored, although `README.md:30-32` says that the insert
order is kept; `SavedIsLive` therefore compares the saved inserts as a set.

### AsioStream and DailySession

`stream` holds, for each place a stream may be built in, the backend's device
state, the driver object, the adapter and the fade; `session` is `m_session`,
`pc` says where the watchdog and the main thread are, and `taken` which stream
each has moved out of `m_session` or is building. `teardownSession` is one chain
of steps whoever runs it: take the session under its mutex, fade out and wait
if the driver still calls back, stop, detach, destroy. The rebuild
selects, configures with the buffer sizes that `BufferChoice` yields, wires,
starts, and swaps the session in. A request of the user interface (`UiHandler`)
is staged, marked and flagged in three steps, into which the watchdog may run.

Time is left out: a round of the watchdog may be one at which the 250 ms of its
rate poll are over, and stands for the 150 ms of a stall only when the driver did
not call back since the last one. The driver is external: when the device goes, or
its panel stops it, the callbacks of that driver object end for good; `stop()`
returns when no callback runs; what `createBuffers` was given is from then on the
driver's preferred size. Configurations that the driver refuses, and sizes above
`kMaxBlock`, fail a rebuild.

### RenderControl, ParameterEdits and ControlPath

A handler of the main thread changes the program's own state and then publishes
it under the session's mutex; each snapshot is a sequence lock that is written
field by field (`BeginUpdate`, `CopyField`, `EndUpdate`) and read field by field
(`BeginRead`, `ReadField`, `ReadAgain`). Both ends copy fields in the order of
their declaration, the revision last, and memory is sequentially consistent, as
on the x86 the application is built for. The watchdog wires a new adapter from
the same state while handlers go on, and reads the selected input once for both
channels (`wiring.source`); what is changed meanwhile may be lost, which
the history variable `racing` keeps, as the properties say. Gains are on or off,
a ramp is its target, and the output state is one boolean, since it is published
as one snapshot. A selection publishes two channels one after the other, so that
a block between them has both inputs on the virtual microphone or neither:
`VirtualMicFollowsSource` allows what was selected since the adapter was made.
With a single input nothing is wired to the virtual microphone but by the local
monitor's edit, whose default send silences it (`AsioRoutingAdapter.h:79-82`);
the properties are about dual set-ups there. `m_seq` is 32 bits wide and wraps
after 2^31 publications; the model's does not.

`ParameterEdits` has each access of `push` and `drain` to the heads as a step of
its own, and the two limits of what is exposed to a block (`kMaxQueues` and
`kMaxPoints`, scaled) with the edits that overflow them. An edit is its number.
`ControlPath` puts both around one callback, which takes the snapshots before it
runs the chain, and one main thread, which does one thing at a time. The user's
acts are bounded by a budget, `Cost`.

### PicoLink

`feeder` is a tick of `VirtualMicFeeder`, `sink` is `PicoVirtualMicSink` with its
ring, `worker` is `PicoUsbWorker::run`, `device` the WASAPI client. The ring is
reset by the feeder, when its generation changes, and by the worker, when the
endpoint comes or goes; either may be in the middle of the other's access. Blocks
are `now` or `old`: `old` when they were written before the last reconnect. At
most two blocks are in the ring. `races` counts the resets by the worker that
fell into a write of the feeder, which it takes two of to let old audio out. A
write ends with a `fetch_add` on the head that is there then: when a reset came in
between, the head shows the first slot, wherever the block was copied to, and with
what a connection before left in it. The comment at `PicoVirtualMicSink.cpp:67-68`
says that a reconnect never replays audio from before the disconnect; the model has
traces in which it does, and `OldPcmNeedsTwoRaces` says that they take a write that
both the reset of a disconnect and that of a reconnect fall into. The
endpoint is external: news of it reaches whoever is registered some time later.

### CaptureControl

`region` holds for each region its pages (`mem`), references, client and the
connected flag of the header the client sees; `active` is the source's
published pointer, `connected` and `connectedFile` the control plane's globals. A request is a
chain of steps of one thread (`pc`, `mine`): connect checks, locks the pages
(`ConnectLock`), describes them (`ConnectDescribe`), writes their header
(`ConnectHeader`), publishes, frees what was published before, and then sets the two
globals. When it fails before the pages are locked nothing is held (`ConnectFails`);
afterwards they are given back through the local MDL or through the descriptor,
whichever has them (`ConnectUnwinds`). Unbind publishes nothing, clears the flag, waits until the region is
`Drained` and frees it, then resets the globals. The fill takes its reference
and looks at the pointer under the spin lock (`FillBegin`) and gives it back
(`FillEnd`). `PublishRegion` is under the same lock.

The driver says that the I/O manager serializes its requests; it does so for the
requests of one handle only. `Init` chooses `serialized`: `NoFillOnFreed`,
`EveryRegionHasOneHolder` and `RetiredIsFreed` hold in both worlds,
`ConnectionIsConsistent` and `ConnectedFlagIsCleared` are about requests that are
serialized. The flag of a header is set by the driver and once more by the client's
`SharedRingCaptureSink`, and cleared by the driver whoever set it. A sink that is
built only after the region was taken back sets the flag of an orphan: such a flag
is `late`, and `ConnectedFlagIsCleared` is about all others. The heads that a flush resets are left out: the application flushes
only when its feeder has stopped.

### CaptureStream

`dma` is the position clock with its carry, `packet` the packet clock with the
interval it counts, `timer` the timer and its DPC, `setting` where a state change
is between its steps. The unit is half a millisecond: the driver moves whole
milliseconds and keeps the rest. Both clocks outlive pauses. `left` is what
`m_hnsDPCTimeCarryForward` keeps across stop and run, so that the first packet
after them is counted early by that much: `PacketsAreComplete` says by no more,
and `ReadableIsIntact` leaves such packets out, as it does buffers whose packets
are not of whole milliseconds, whose interval is truncated. Threads and the DPC may
be held up between any two steps. A pause saves the time since the last packet before
it brings the positions up to date and sets the state (`EndsPause`); time that passes
in between moves the positions, and the packets never count it. `held` adds it up, and
`ReadableIsIntact` takes it as lateness of the packet clock: the packet announced is
whole as long as that clock is late by less than all the packets but one, and two such
pauses can make it later, which no code prevents. A packet counter of 0 gives the
number `ULONG_MAX`, which is also what a stop leaves as the last one read; `None` is
no call in progress. `GetReadPacket`
stores the number it hands out after it has left the lock (`ReturnsPacket`),
possibly after a stop.

### AdapterLife

`heap` has the reference counts of adapter, ports and miniports of every start of
every device; `children` is the set of filters whose port holds its miniport; `cache` is the subdevice cache, `dev[d]` with a step is where
`StartDevice` is. A start may fail at any of its steps (`NewAdapterCommon`,
`InitAdapter`, creation, `Init`, registration, caching of each filter, the
connection of the two) and unwinds as the code does. There are two circles. The cache
of the adapter holds the topology miniport, which holds the adapter; `Cleanup` breaks
it. A miniport holds its port from `Init` to its destructor (`IID_IPortEvents`:
`basetopo.cpp:228`, `minwavert.cpp:367`) and the port holds the miniport; no line of
the driver breaks this one, whether the filter was registered and later is not, or
could not be registered at all. That PortCls does, by having a port let go of its
miniport (`ReleaseChildren`), is an assumption about PortCls, and `AdapterIsReleased`
has it as a premise (`children = {}`). It is assumed too that a WaveRT port has the
interface, without which the wave miniport would go on. `PnpHandler` handles the
requests in the orders of `May`. PortCls is external: it holds the adapter as
power management and the ports of registered filters, and lets go of them some
time after it is told. Unregistering succeeds; creates on one filter are
serialized; a failed allocation leaves the one instance taken (`refused`), as in
the code.

## Runs

| Run | Bounds | Shows |
|---|---|---|
| `ring` | capacity 4, transport block 2, threshold 2; writes of 1, 3, 5; reads of 1, 2; 8 samples an epoch; 2 epochs | all the properties of the transport, the drop-new queue as its abstraction, and that a backlog moves |
| `ring_live_reset` | as above with blocks of 2, consumer not stopped | `NeverReplays` fails (finding) |
| `rack` | 2 rack slots, 3 plug-ins, 3 publications, grace 2, 2 blocks begun after a stamp, overtaking loads | all the properties of the production owner and its chain |
| `daily` | 2 slots, 2 plug-ins, 2 publications, grace 2, 3 blocks after a stamp, one more start | the daily list within the chain's capacity, and what is on disk of it |
| `daily_load` | capacity 1, 3 plug-ins | `NoDanglingProcessor` fails beyond the capacity (finding) |
| `daily_editor` | 2 slots, 2 plug-ins, 3 publications | `EditorOnOwnedProcessor` fails (finding) |
| `driver` | 2 handles and the PnP thread, 2 regions, serialized or not | no fill on freed pages, no page lost wherever a request fails, globals that agree |
| `session` | 2 places for streams, sizes 1 and 2 (3 refused, 4 too large), fade of one block, 2 events from outside | a loss or a request at any moment ends with the stream as it should be |
| `control` | both modes, one lost stream, 2 changes of the settings or up to 3 edits and bypasses; queue of 2, 2 drained and 1 exposed to a block | no torn snapshot, the selected input, no edit lost uncounted |
| `pico` | ring of 2 blocks, 3 blocks pulled, 2 events | old audio needs two races; the endpoint comes back |
| `stream` | buffers of 4 ms with 2 packets, 3 ms with 2, 2 ms polled; 5 ms of time | the timer, the packets and the positions |
| `adapter` | 2 devices started twice, 2 clients, a limit of one stream; symmetric | reference counts, the honest start, the stream count |

Why the bounds are enough. `ring`: 8 samples go round a ring of 4 twice; writes
of 1 and 3 do not divide the transport block, so that a discard leaves part of
one; a write of 5 never fits; 2 epochs let a reset meet every state of the first
one. `rack`: the third publication is needed to remove or move what two others
made; a block may hold a snapshot while two more are published; two blocks after
a stamp elapse a grace of 2, and a load that overtakes its increment is the one
case in which a grace of 1 is too short (the mutant `BadGraceOneShort` is
caught). `MaxLoads` is above `RackSlots`, so that an id is given out after a
removal. `daily`: the selection meets an empty list, its first and its last
slot, and a save may end, fail or be cut off before and after each of the two
plug-ins' states. `driver`: a second region is published while the first is
still freed or filled from, and every pair of requests overlaps. `session`: the
second event may fall into the rebuild that the first began, and a freed place is
used again. `control`: a change may meet the rebuild or the other change; three
edits fill the queue of two while a drain is under way, and two parameters meet
the limit of one exposed. `pico`: three blocks go round the ring. `stream`: each
buffer goes round, with a pause and a stop in between, and a pause can be held up long
enough for a packet to be written over. `adapter`: the second start
of a device, or the start of the other, meets what clients and PortCls still hold
of the first. The mutant of every property fails under the same bounds. The
theorems below hold with no bound at all.

`CHECK_DEADLOCK FALSE`: the bounds use up what may happen from outside
(`daily`, `driver`, `session`, `pico`, `stream`, `adapter`, `control`: a user who does nothing
more, a clock at its end, devices that are removed, an application that is shut
down), and after `quiescentShutdown` an owner does nothing (`rack`).

### Properties

* Transport: `NoTornBlock`, `NoSilentDrop` (every offered sample is accepted,
  counted or in progress), `FreshnessBound` (what a fresh read may leave in
  front), `NeverReplays` (an action property over consecutive blocks, across
  resets), `BacklogMoves` (liveness), `ImplementsFifo` (refinement of
  `DropNewFifo`). `HeadsInRange` and `ResyncLeavesPartOfABlock` are proved only.
  The latter is what holds in place of `VirtualCaptureTransport.h:47-48`, where a
  reader never gets audio from before a recovery: a discard takes whole blocks,
  and up to a sample less than one of old audio is left.
* Chain and owners: `NoDanglingSnapshot`, `NoDanglingProcessor`,
  `RackMatchesPublished`, `RetiredAreDestroyed` (liveness), `ListIsPublished`.
* Mixer: `StateBeforeInsert`, `MissingAreKept`, `SavedIsLive`.
* Session: `NoCallbackOnFreed`, `GracefulStopIsSilent`, and the liveness
  properties `Recovers`, `BufferIsHonoured` and `RateIsRestored`.
* Control path: `NoTornSnapshot`, `VirtualMicFollowsSource`, `EditsAreAccounted`,
  and the liveness properties `SettingsAreHeard` and `EditsReachThePlugin`.
* Pico link: `OldPcmNeedsTwoRaces`, `Reconnects` (liveness) and, in `LinkTypeOK`,
  that the read head never passes the write head, although both threads reset them.
* Driver: `NoFillOnFreed`, `EveryRegionHasOneHolder`, `ConnectionIsConsistent`,
  `ConnectedFlagIsCleared`, `RetiredIsFreed` (liveness); `DpcHasItsBuffer`,
  `PacketsAreComplete`, `ReadableIsIntact`; `AdapterOutlivesItsUsers`,
  `AdapterIsReleased`, `StartIsHonest`, `StreamsAreCounted`.

The type invariants of all components are proved, those of the daily chain and the
mixer under the conditions given below; no run is spent on most of them.

### Fairness

A thread that has something to do goes on with it; nobody outside has to act.
`SpscRing`: a call that was entered runs to its end (the callback and `reset`
have no loop that waits and no lock), and `VirtualMicFeeder::run` calls the fresh
read each time round its loop for as long as it runs. The producer is not
assumed to begin calls. `ChannelVstChain`: the driver keeps calling back while it
is attached, an operation runs to its end, retirements are serviced again and
again, and a detached owner is shut down (by its destructor at the latest).
Strong fairness of the shutdown stands for a caller that is not kept from it for
ever by servicing in between. `DailySession`: weak fairness of each thread and of
the driver's callback, and strong fairness of the rate poll, whose 250 ms are over
again and again. `ControlPath`: weak fairness of main thread, watchdog and
callback. `PicoLink`: weak fairness of feeder, worker and of the delivery of news.
`CaptureControl`: a request that was accepted and a fill that was begun end.

## Findings

Three runs end with a counterexample; `PROJECT.json` quotes the lines.

1. `ring_live_reset`: `requestFadeIn` resets the transport under the feeder,
   which is not stopped during a recovery; samples of the old epoch are handed
   out again, which the comment on that line says never happens.
2. `daily_load`: the panel's load has no capacity check; a later removal then
   destroys a processor that the snapshot still published goes on running.
3. `daily_editor`: removing a slot closes its editor only when the slot is the
   selected one.

Where a comment and the code disagree and no run is spent on it, the section of
the module says so.

## Proofs

Everything below is checked by tlapm to the last leaf, for all values of the
constants that satisfy the named assumptions.

* `CaptureRingsProofs`, the transport. `TypeCorrect`: the types, resets at any
  moment included.
  `RingSafety`, `RingHeads`, `RingDropsAreCounted`, `RingIsFresh`, `RingResync`,
  `RingNeverReplays`: for every power of two up to 2^16 as
  capacity, every block size, threshold and call size, and
  `ConsumerQuiet`. The properties are not inductive: that the consumer copies
  what was written needs that every slot between the heads, and every slot the
  producer has filled beyond them, holds the sample of its position
  (`SlotsInv`); that this survives a copy needs that the head the producer
  loaded is not ahead of the real one (`ProducerInv`), so that the slot it
  writes is not one of those (`IndexInjective`: two positions less than a
  capacity apart never share a slot). `ConsumerInv` carries the distances the
  freshness bounds are about, and `ServedInv` that everything handed out is
  behind the read head. `RingNeverReplays` is an action property that follows
  from `IInv` and the type of a step.
  `RingImplementsFifo`: under the same assumption the ring implements
  `DropNewFifo`. The refinement mapping is `Queue`, the samples between the two
  heads, with the two histories `Accepted` and `Rejected`. Every step is one of
  the queue's own (`PublishMaps`: put; `SkipMaps`: discard; `ReadMaps`: get;
  `ResetMaps`; `BeginMaps`: reject, or nothing) or leaves all three alone
  (`WritesStutter`, `LooksStutter`). It needs what a queue is when the heads are
  all that is known of it, a stretch of consecutive samples of one epoch
  (`QueueIsBetween`, `StretchSeq`), and that the block in a call is still of the
  size the call was made with (`CallsInv`).
* `CaptureRingsProofs`, the Pico link. `LinkTypeCorrect` and `RacesAreNeeded`: between
  two connections both threads reset the ring, each of these resets leaves
  nothing of the earlier connection unless it falls into a write, and so one race is
  forgiven (`Forgiven`). `Clean` is what a reset leaves: what is in the ring and
  what a write in progress adds is of this connection.
* `Vst3ChainProofs!ChainStepInv`: every step of the chain keeps `ChainInv`,
  whoever owns it. Its heart is that a block that still holds a retired snapshot
  loaded it before the swap, so that its number is at most one more than the
  count the snapshot was dated with (not more at all when the load cannot
  overtake): with `GraceCoversTheBlockInFlight` its grace has not elapsed.
* `ChannelVstChainProofs`. `NothingDangles`, `SnapshotsAreLive`,
  `RackIsPublished`, `IdsAndEditors`, `EditorsOnLiveBundles`,
  `OwnerTypeCorrect`. `IInv` adds that every
  snapshot swapped out names only bundles that are still owned until its grace
  has elapsed (`OldSnapshotsInv`), which is why the snapshot a block reads, being
  current, pending or not yet elapsed, names no destroyed processor. The three
  ways in which rack, live list and snapshot are rebuilt are proved equal by
  lemmas on sequences (`CommitOrders`, `RemoveOrders`, `MoveOrders`,
  `BypassOrders`, and those on sequences at the end of `Vst3ChainProofs`).
* `DailyMixerProofs`. `DailyIsSafe`, `DailyListIsPublished`, `DailyTypeCorrect`:
  the same for the daily chain under `WithinCapacity`, that the panel, if it is
  open, loads no more than the chain takes. The finding `daily_load` is what
  happens without. `MixerIsSafe` and `MixerListIsPublished` are the same with
  restarts; they ask for `MaxLoads <= MaxSlots`, because a start gives a slot to
  every insert of the file whose plug-in is there, those that were missing
  in earlier sessions included, and so does `MixerTypeCorrect`. `StateIsWrittenFirst`: a plug-in that the file lists
  has had its own state written, or tried to be, by this save or by one before.
  `MissingInsertsAreKept`: what a start could not load stays in the file.
  `SavedListIsLive`: after a save that ended well, and until something is changed,
  the file lists what is live.
  The last three need no bound on the loads.
* `DailySessionProofs`. `CallbacksAreSafe`, `ShutdownsAreSilent` and
  `OneStreamAtATime`. The invariant says who has the one stream: the session, the
  watchdog or the main thread, each where it may have it (`Roles`), and that it is
  live exactly while one of them has it, whatever the driver knows (`Lives`). A
  stream that is being built is not called back yet and one that is taken apart no
  more (`Stopped`), and a fade-out that began at full level is muted only at silence
  (`Fades`).
  `BlocksFitTheEngine`: what is called back, shown or asked for has a size the engine
  was prepared for, because every stream is configured with one (`Fitted`).
  `SessionTypeCorrect`: the types, on the same invariant.
* `ControlPathProofs`. `SnapshotsAreWhole`: the invariant has three parts, one
  for what is in memory while a writer is at work (`Memory`), one for the writer
  (`Writer`) and one for the reader (`Reader`): as long as the number the reader
  took is the one in memory, the fields it has copied are those that were last
  published. `VirtualMicIsSelected` rests on it and on what each step of a
  selection and of the wiring leaves published (`Mic`). Both are proved of
  `RenderControl` alone and, because every step of `ControlPath` is one of its
  steps or leaves it alone (`PathSteps`), of the composition
  (`PathSnapshotsAreWhole`, `PathVirtualMicIsSelected`), and so is
  `PathEditsAreAccounted` (`PluginSteps`). `RenderTypeCorrect` and `PathTypeCorrect`:
  what the callback applies is a whole record of its snapshot, because what it has
  read is (`Reader`, `CallbackTypes`).
  `AllEditsAreAccounted` is `ParameterEdits` alone, for sizes that are at least
  one. Its invariant says where the edits are: what a drain has copied is still in
  the queue until its room is given back (`Consumer`), the edit in the producer's
  hand is the newest and has a slot to itself (`Producer`, `OwnSlot`), and
  everything in one place is older than everything in the next (`Order`), from
  which it follows that no edit is in two. `ExposedPart` shows that what a block
  exposes is a part of its batch, whatever the limits are.
* `CaptureControlProofs`. `FillsAreSafe` and `RegionsAreHeldOnce` hold however
  requests overlap: `Owned` says that pages are locked exactly while the region is
  published or in the hand of one thread, `Filling` that a fill's region has
  its reference and is locked, which is what a retiring thread waits for. For
  requests that are serialized, `Stage` says what the globals are at every step
  of the one request in the kernel, which yields `GlobalsAgree`, and `Flagged`
  that a header says connected only while its region is published or about to be
  cleared (`FlagsAreCleared`).
* `AudioDriverProofs`, the capture stream. `DpcIsSafe`; `PacketsAreFilled`: the
  packet clock is never ahead of the position clock by more than what was left
  from before a stop (`Clocks`). `ReadPacketsAreIntact` is about the other side,
  that the packet a client is told to read is not written over yet: the position
  clock is ahead of the packets counted and the part of one that has passed by
  less than a millisecond (`Abreast`), and the buffer holds the last bytes that were
  moved, in whole milliseconds and without gaps (`Filling`, `Holds`). Each time a pause
  is held up the two clocks drift apart by as much, which `held` accounts for.
  `StreamTypeCorrect`: the position a client is told is that of all the bytes moved,
  round the buffer (`Placed`, `RestOfSum`), and no clock is ahead of time (`Timely`).
* `AudioDriverProofs`, the adapter. `LifeTypeCorrect`, `UsersAreOutlived`,
  `AdaptersAreReleased`, `StartsAreHonest`, `StreamCountIsRight`, for any number of
  devices, starts and (finitely many) clients. At every step of every start, of
  its unwinding and of a removal, each reference count is exactly the number
  of those who hold one (`Balanced`), which is what lets the last release free
  an object and no earlier one; `StartOf` and `StartTells` say what a start has
  made so far and what it will report, `Owners` that PortCls was told to let go
  of every adapter but the one a device has now, and which ports and miniports hold
  each other (`children`), and `Streams` that the count is
  the number of open pins.

Assumptions: those named in the modules, evaluated by TLC in the runs. The
theorems use bounds such as `MaxOffered`, `MaxSwaps`, `MaxEdits` or `MaxTime` only
as some natural numbers.

Every safety property of a run that passes, the refinement included, is thus
stated by a theorem. Model-checked only: the liveness properties, which the prover
cannot reach, as it knows nothing of `ENABLED` and fairness; and what the three runs
with a finding show, which is that a property does not hold.

## Not modelled

* Floating-point signal processing (gains, ramps, meters, mixing), the VST3 SDK,
  USB packets and their codecs, windows.
* Hardware control: every request to the vendor's API and the cache of its answers
  are under one mutex, and a poll five times a second brings the cache up to date.
  Preferences: text and a file.
* `src/app/physical_vmic_demo_main.cpp`, an older copy of the daily application,
  and the test harnesses, among them the transport links and `EngineGraph`.
* Of the driver, the property handlers, tables and helpers of the SysVAD sample
  it is made from, driver entry and unload, the power walk over the cache and
  the notification events of a stream.
* The heads and epochs of the ring shared with the driver: its algorithm is that of
  `SpscRing`; the application writes with the generation the driver set and
  flushes only when the feeder has stopped.
* The second producer of parameter edits, the thread of `--vst3-param`, a
  diagnostic option.
* 64-bit positions do not wrap. The statistics counters other than
  `overflowDrops` are left out.

## Plan

What is left, the most useful first:

1. Proofs: the safety half of the liveness arguments (what never gets less on the
   way to `RetiredIsFreed` and `RetiredAreDestroyed`), which leaves TLC the fairness
   alone.
2. The shared ring of the driver as a second instance of `SpscRing`, with the
   epoch that a write opens, if an application changes the generation while its
   feeder runs.
3. The notification events of the capture stream, between `TimerNotifyRT` and
   the clients that wait for packets.
4. Hardware control: losing and reopening the device, and what is shown after a
   pair of requests of which one failed.
