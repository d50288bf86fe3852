----------------------------- MODULE AdapterLife -----------------------------
(***************************************************************************)
(* The life of the virtual microphone's adapter object.  StartDevice makes *)
(* it, of which the driver allows one, installs and caches the topology    *)
(* and the wave filter of the endpoint, and leaves it in the device's      *)
(* extension; PnpHandler empties the cache and lets it go.  The objects    *)
(* are COM objects that hold each other:                                   *)
(*                                                                         *)
(*   extension, power management, topology miniport --> adapter            *)
(*   adapter's cache, PortCls, clients, miniport --> port                  *)
(*   adapter's cache, streams, port --> miniport                           *)
(*                                                                         *)
(* There are two circles.  Adapter, cache, topology miniport, adapter is   *)
(* broken by Cleanup.  Port, miniport, port is not broken by the driver:   *)
(* what breaks it is taken to be PortCls, which has a port let go of its   *)
(* miniport (ReleaseChildren) at some time after its filter was taken off  *)
(* the device, or could not be put there.  The counts are the code's; what *)
(* PortCls holds and releases is external.                                 *)
(***************************************************************************)
EXTENDS Integers, FiniteSets

CONSTANTS
  Devices,       \* device objects the driver was added to
  Clients,       \* handles to a filter or to a pin of it
  NoFilter,      \* what a closed handle is on
  MaxStreams,    \* m_ulMaxSystemStreams, 1 in MicArrayWaveMiniportPins
  MaxStarts      \* bound: starts of one device

ASSUME AdapterAssumption ==
  /\ MaxStreams \in Nat /\ MaxStarts \in Nat /\ IsFiniteSet(Clients)

Kinds == {"topology", "wave"}
Adapters == Devices \X (1..MaxStarts)   \* the adapter of a device's n-th start
Filters == Adapters \X Kinds
ASSUME NoFilterAssumption == NoFilter \notin Filters

VARIABLES
  dev,        \* what PnP has done with the device
  starts,     \* its starts so far
  common,     \* PortClassDeviceContext.m_pCommon: 0, or the start it is from
  start,      \* StartDevice while it runs: its step, ntStatus and the filters
              \* whose unknownTopology or unknownWave is set
  heap,       \* the reference counts, and m_AdapterInstances
  cache,      \* m_SubdeviceCache of each adapter
  registered, \* the filters PortCls has registered
  children,   \* the filters whose port holds its miniport
  bridged,    \* the adapters whose filters are connected
  powered,    \* the adapters PortCls calls for power management
  leaving,    \* the adapters whose device PortCls was told is leaving
  handle,     \* what each client has open
  allocated,  \* m_ulSystemAllocated of each adapter's wave miniport
  refused     \* history: allocations of an adapter that failed

deviceVars == <<dev, starts, common, start>>
lifeVars == <<deviceVars, heap, cache, registered, children, bridged, powered,
          leaving, handle, allocated, refused>>

Latest(d) == <<d, starts[d]>>
Filter(d, k) == <<Latest(d), k>>

----------------------------------------------------------------------------
(* Reference counts: releasing the last one destroys, and so releases.      *)

AddAdapter(h, a) == [h EXCEPT !.adapter[a] = @ + 1]

\* ~CAdapterCommon gives the instance back; it does not touch the cache.
ReleaseAdapter(h, a) ==
  LET last == h.adapter[a] = 1
  IN  [h EXCEPT !.adapter[a] = @ - 1, !.instances = @ - (IF last THEN 1 ELSE 0)]

AddMiniport(h, f) == [h EXCEPT !.miniport[f] = @ + 1]

AddPort(h, f) == [h EXCEPT !.port[f] = @ + 1]

\* A port that goes has no miniport any more, which would still hold it.
ReleasePort(h, f) == [h EXCEPT !.port[f] = @ - 1]

\* A miniport gives back its port's events and, if it is the topology's, the
\* adapter: the wave miniport's pointer to the adapter is weak.
DestroyMiniport(h, f) ==
  ReleasePort(IF f[2] = "topology" THEN ReleaseAdapter(h, f[1]) ELSE h, f)

ReleaseMiniport(h, f) ==
  LET g == [h EXCEPT !.miniport[f] = @ - 1]
  IN  IF g.miniport[f] = 0 THEN DestroyMiniport(g, f) ELSE g

\* A miniport, with the reference of who made it.
CreateMiniport(h, f) == [h EXCEPT !.miniport[f] = 1]

BadInitMiniport(h, f) == AddPort(h, f)

\* Init asks the port for its events (the WaveRT port is taken to have them, as
\* the miniport's event handler does) and, for the topology, the adapter for its
\* interface.
InitMiniport(h, f) ==
  AddPort(IF f[2] = "topology" THEN AddAdapter(h, f[1]) ELSE h, f)

\* PcNewPort, MiniportCreate and the port's Init, which takes a reference to
\* the miniport and initialises it.
NewFilter(h, f) ==
  InitMiniport(AddMiniport(CreateMiniport([h EXCEPT !.port[f] = 1], f), f), f)

----------------------------------------------------------------------------
LifeInit ==
  /\ dev = [d \in Devices |-> "added"]
  /\ starts = [d \in Devices |-> 0]
  /\ common = [d \in Devices |-> 0]
  /\ start = [d \in Devices |-> [step |-> "idle", ok |-> TRUE, out |-> {}]]
  /\ heap = [adapter |-> [a \in Adapters |-> 0], port |-> [f \in Filters |-> 0],
             miniport |-> [f \in Filters |-> 0], instances |-> 0]
  /\ cache = [a \in Adapters |-> {}]
  /\ registered = {} /\ children = {} /\ bridged = {} /\ powered = {}
  /\ leaving = {}
  /\ handle = [c \in Clients |-> NoFilter]
  /\ allocated = [a \in Adapters |-> 0]
  /\ refused = 0

----------------------------------------------------------------------------
(* StartDevice, a step at a time: other devices and clients run meanwhile.  *)

At(d, step) == dev[d] = "starting" /\ start[d].step = step

Continue(d, step, ok, out) ==
  start' = [start EXCEPT ![d] = [step |-> step, ok |-> ok, out |-> out]]

\* NewAdapterCommon.  When the allocation fails the instance stays taken.
NewAdapterCommon(d, allocates) ==
  /\ dev[d] \in {"added", "stopped"} /\ starts[d] < MaxStarts
  /\ IF heap.instances # 0                      \* STATUS_DEVICE_BUSY
     THEN /\ dev' = [dev EXCEPT ![d] = "failed"]
          /\ UNCHANGED <<starts, start, heap, refused>>
     ELSE /\ starts' = [starts EXCEPT ![d] = @ + 1]
          /\ IF allocates
             THEN \* pUnknownCommon and pAdapterCommon
                  /\ heap' = [heap EXCEPT !.instances = 1,
                                          !.adapter[<<d, starts[d] + 1>>] = 2]
                  /\ dev' = [dev EXCEPT ![d] = "starting"]
                  /\ Continue(d, "init", TRUE, {})
                  /\ UNCHANGED refused
             ELSE /\ heap' = [heap EXCEPT !.instances = 1]
                  /\ dev' = [dev EXCEPT ![d] = "failed"]
                  /\ refused' = refused + 1
                  /\ UNCHANGED start
  /\ UNCHANGED <<common, cache, registered, children, bridged, powered, leaving, handle,
                 allocated>>

\* Init and PcRegisterAdapterPowerManagement.
InitAdapter(d, inits, registers) ==
  /\ At(d, "init")
  /\ IF inits /\ registers
     THEN /\ heap' = AddAdapter(heap, Latest(d))
          /\ powered' = powered \union {Latest(d)}
          /\ Continue(d, "topology", TRUE, {})
     ELSE Continue(d, "exit", FALSE, {}) /\ UNCHANGED <<heap, powered>>
  /\ UNCHANGED <<dev, starts, common, cache, registered, children, bridged, leaving, handle,
                 allocated, refused>>

FilterStep(k) == IF k = "topology" THEN "topology filter" ELSE "wave filter"

\* CreateAudioInterfaceWithProperties, the first thing InstallSubdevice does.
CreateAudioInterface(d, k, next, creates) ==
  /\ At(d, k)
  /\ IF creates THEN Continue(d, FilterStep(k), start[d].ok, start[d].out)
                ELSE Continue(d, next, FALSE, start[d].out)
  /\ UNCHANGED <<dev, starts, common, heap, cache, registered, children, bridged, powered,
                 leaving, handle, allocated, refused>>

\* InstallSubdevice ends with the release of its own two references.
ReleaseLocals(h, f) == ReleaseMiniport(ReleasePort(h, f), f)

\* A filter that is made but cannot be registered: nothing but the port and the
\* miniport hold each other then.
DiscardFilter(h, f) == ReleaseLocals(NewFilter(h, f), f)

\* One that can: PortCls and OutPortUnknown hold the port, the port and
\* OutMiniportUnknown the miniport.
KeepFilter(h, f) ==
  ReleaseLocals(AddMiniport(AddPort(AddPort(NewFilter(h, f), f), f), f), f)

CacheSubdevice(h, f) == AddMiniport(AddPort(h, f), f)

\* The rest of InstallSubdevice up to the port's Init: when a step of it fails, what
\* was taken is given back on the spot.
MakeFails(d, k, next) ==
  /\ At(d, FilterStep(k))
  /\ Continue(d, next, FALSE, start[d].out)
  /\ UNCHANGED <<dev, starts, common, heap, cache, registered, children, bridged, powered,
                 leaving, handle, allocated, refused>>

\* InstallEndpointFilters, one filter of the pair: PcRegisterSubdevice, then
\* CacheSubdevice.  The wave filter's status replaces the topology's.
InstallSubdevice(d, k, next, registers, caches) ==
  LET f == Filter(d, k) IN
  /\ At(d, FilterStep(k))
  /\ children' = children \union {f}
  /\ IF registers
     THEN /\ registered' = registered \union {f}
          /\ IF caches
             THEN /\ heap' = CacheSubdevice(KeepFilter(heap, f), f)
                  /\ cache' = [cache EXCEPT ![Latest(d)] = @ \union {k}]
             ELSE heap' = KeepFilter(heap, f) /\ UNCHANGED cache
          /\ Continue(d, next, caches, start[d].out \union {k})
     ELSE /\ heap' = DiscardFilter(heap, f)
          /\ Continue(d, next, FALSE, start[d].out)
          /\ UNCHANGED <<cache, registered>>
  /\ UNCHANGED <<dev, starts, common, bridged, powered, leaving, handle, allocated,
                 refused>>

\* DisconnectTopologies: every connection of the pair, made or not.
Disconnected(a) == bridged \ {a}

\* ConnectTopologies, when there are two filters; its status replaces the
\* ones before it.
ConnectTopologies(d, connects) ==
  /\ At(d, "connect")
  /\ IF start[d].out = Kinds
     THEN /\ bridged' = IF connects THEN bridged \union {Latest(d)}
                       ELSE Disconnected(Latest(d))
          /\ Continue(d, "unwind", connects, start[d].out)
     ELSE Continue(d, "unwind", start[d].ok, start[d].out) /\ UNCHANGED bridged
  /\ UNCHANGED <<dev, starts, common, heap, cache, registered, children, powered, leaving,
                 handle, allocated, refused>>

\* PortCls lets go of the port of a filter that is unregistered.
UnregisterSubdevice(d, k, h) == ReleasePort(h, Filter(d, k))

RemoveCached(d, k, h) ==
  LET f == Filter(d, k)
  IN  IF k \in cache[Latest(d)] THEN ReleaseMiniport(ReleasePort(h, f), f) ELSE h

\* SAFE_RELEASE of unknownMiniTopo and unknownTopology, or of the wave's.
ReleaseOut(d, k, h) ==
  LET f == Filter(d, k)
  IN  IF k \in start[d].out THEN ReleasePort(ReleaseMiniport(h, f), f) ELSE h

BadUnwound(d) == IF start[d].ok THEN {} ELSE start[d].out \ {"wave"}

\* The filters a failed install takes back: those that were made.
Unwound(d) == IF start[d].ok THEN {} ELSE start[d].out

\* The end of InstallEndpointFilters.
Unwind(d) ==
  LET gone == Unwound(d)
      Drop(k, h) == IF k \in gone
                    THEN RemoveCached(d, k, UnregisterSubdevice(d, k, h)) ELSE h
  IN
  /\ At(d, "unwind")
  /\ heap' = ReleaseOut(d, "wave", ReleaseOut(d, "topology",
                        Drop("wave", Drop("topology", heap))))
  /\ registered' = registered \ {Filter(d, k) : k \in gone}
  /\ cache' = [cache EXCEPT ![Latest(d)] = @ \ gone]
  /\ Continue(d, "exit", start[d].ok, {})
  /\ UNCHANGED <<dev, starts, common, children, bridged, powered, leaving, handle,
                 allocated, refused>>

\* The Exit of StartDevice, which keeps the adapter whatever the status is.
ExitStart(d) ==
  /\ At(d, "exit")
  /\ common' = [common EXCEPT ![d] = starts[d]]
  /\ heap' = ReleaseAdapter(heap, Latest(d))      \* pUnknownCommon
  /\ dev' = [dev EXCEPT ![d] = IF start[d].ok THEN "started" ELSE "failed"]
  /\ Continue(d, "idle", TRUE, {})
  /\ UNCHANGED <<starts, cache, registered, children, bridged, powered, leaving, handle,
                 allocated, refused>>

----------------------------------------------------------------------------
(* PnpHandler: IRP_MN_STOP_DEVICE, SURPRISE_REMOVAL and REMOVE_DEVICE.      *)

BadEmptyCache(h, a) == h

\* EmptySubdeviceCache, from the head of the list: a filter that is cached is
\* still registered then, so no port goes with it.
EmptyCache(h, a) ==
  LET Empty(k, g) ==
        IF k \in cache[a]
        THEN ReleaseMiniport(ReleasePort(g, <<a, k>>), <<a, k>>) ELSE g
  IN  Empty("wave", Empty("topology", h))

\* ext->m_pCommon = NULL
PnpCommon(d) == 0

\* What may follow what: a device that failed to start is removed, one that
\* was surprise-removed as well.
May(d, irp) ==
  CASE irp = "stopped" -> dev[d] = "started"
    [] irp = "lost"    -> dev[d] \in {"started", "stopped"}
    [] irp = "removed" -> dev[d] \in {"added", "started", "stopped", "failed", "lost"}

PnpHandler(d, irp) ==
  LET a == <<d, common[d]>> IN
  /\ May(d, irp)
  /\ dev' = [dev EXCEPT ![d] = irp]
  /\ IF common[d] # 0
     THEN /\ heap' = ReleaseAdapter(EmptyCache(heap, a), a)
          /\ cache' = [cache EXCEPT ![a] = {}]
          /\ leaving' = leaving \union {a}         \* PcDispatchIrp
          /\ common' = [common EXCEPT ![d] = PnpCommon(d)]
     ELSE UNCHANGED <<heap, cache, leaving, common>>
  /\ UNCHANGED <<starts, start, registered, children, bridged, powered, handle,
                 allocated, refused>>

\* PortCls lets go of the filters and of the adapter of a device that leaves,
\* at any time after it was told.
PortClsReleases(a) ==
  LET Drop(k, h) == IF <<a, k>> \in registered THEN ReleasePort(h, <<a, k>>) ELSE h
      g == Drop("wave", Drop("topology", heap))
  IN
  /\ a \in leaving
  /\ heap' = IF a \in powered THEN ReleaseAdapter(g, a) ELSE g
  /\ registered' = registered \ ({a} \X Kinds)
  /\ bridged' = bridged \ {a}
  /\ powered' = powered \ {a}
  /\ leaving' = leaving \ {a}
  /\ UNCHANGED <<deviceVars, cache, children, handle, allocated, refused>>

\* The port of a filter that is not registered, any more or at all, lets go of
\* its miniport, be it open or not.
ReleaseChildren(f) ==
  /\ f \in children \ registered
  /\ heap' = ReleaseMiniport(heap, f)
  /\ children' = children \ {f}
  /\ UNCHANGED <<deviceVars, cache, registered, bridged, powered, leaving, handle,
                 allocated, refused>>

----------------------------------------------------------------------------
(* Clients.  A handle holds the port of its filter; on the wave filter it   *)
(* is a pin's, with a stream that holds the miniport.                       *)

MayOpen(c, f) ==
  /\ handle[c] = NoFilter
  /\ f \in registered /\ f[1] \notin leaving

OpenFilter(c, f) ==
  /\ MayOpen(c, f) /\ f[2] = "topology"
  /\ handle' = [handle EXCEPT ![c] = f]
  /\ heap' = AddPort(heap, f)
  /\ UNCHANGED <<deviceVars, cache, registered, children, bridged, powered, leaving,
                 allocated, refused>>

StreamsLeft(a) == allocated[a] < MaxStreams     \* ValidateStreamCreate
StreamCreated(a) == allocated' = [allocated EXCEPT ![a] = @ + 1]
StreamClosed(a) == allocated' = [allocated EXCEPT ![a] = @ - 1]

\* A stream's Init begins with its reference to the miniport, which its
\* destructor gives back however far Init came, and ends with StreamCreated.
StreamInit(h, f) == AddMiniport(h, f)

BadDestroyStream(a, created) == StreamClosed(a)

\* ~CMiniportWaveRTStream tells the miniport of the streams it was told of:
\* m_bUnregisterStream.
DestroyStream(a, created) ==
  IF created THEN StreamClosed(a) ELSE UNCHANGED allocated

\* NewStream of the wave miniport: the limit, and a stream that is destroyed
\* again when its Init fails between the miniport's AddRef and StreamCreated.
NewStream(c, f, inits) ==
  /\ MayOpen(c, f) /\ f[2] = "wave"
  /\ StreamsLeft(f[1])
  /\ IF inits
     THEN /\ handle' = [handle EXCEPT ![c] = f]
          /\ heap' = StreamInit(AddPort(heap, f), f)
          /\ StreamCreated(f[1])
     ELSE /\ heap' = ReleaseMiniport(StreamInit(heap, f), f)
          /\ DestroyStream(f[1], FALSE)
          /\ UNCHANGED handle
  /\ UNCHANGED <<deviceVars, cache, registered, children, bridged, powered, leaving,
                 refused>>

\* A handle may be closed long after its device left.
Close(c) ==
  LET f == handle[c] IN
  /\ f # NoFilter
  /\ IF f[2] = "wave"
     THEN /\ heap' = ReleasePort(ReleaseMiniport(heap, f), f)
          /\ DestroyStream(f[1], TRUE)
     ELSE heap' = ReleasePort(heap, f) /\ UNCHANGED allocated
  /\ handle' = [handle EXCEPT ![c] = NoFilter]
  /\ UNCHANGED <<deviceVars, cache, registered, children, bridged, powered, leaving,
                 refused>>

----------------------------------------------------------------------------
StartDevice(d) ==
  \/ \E allocates \in BOOLEAN : NewAdapterCommon(d, allocates)
  \/ \E inits, registers \in BOOLEAN : InitAdapter(d, inits, registers)
  \/ \E creates \in BOOLEAN :
       \/ CreateAudioInterface(d, "topology", "wave", creates)
       \/ CreateAudioInterface(d, "wave", "connect", creates)
  \/ MakeFails(d, "topology", "wave") \/ MakeFails(d, "wave", "connect")
  \/ \E registers, caches \in BOOLEAN :
       \/ InstallSubdevice(d, "topology", "wave", registers, caches)
       \/ InstallSubdevice(d, "wave", "connect", registers, caches)
  \/ \E connects \in BOOLEAN : ConnectTopologies(d, connects)
  \/ Unwind(d)
  \/ ExitStart(d)

LifeNext ==
  \/ \E d \in Devices :
       \/ StartDevice(d)
       \/ \E irp \in {"stopped", "lost", "removed"} : PnpHandler(d, irp)
  \/ \E a \in Adapters : PortClsReleases(a)
  \/ \E f \in children : ReleaseChildren(f)
  \/ \E c \in Clients :
       \/ \E f \in registered :
            \/ OpenFilter(c, f)
            \/ \E inits \in BOOLEAN : NewStream(c, f, inits)
       \/ Close(c)

LifeSpec == LifeInit /\ [][LifeNext]_lifeVars

----------------------------------------------------------------------------
(* Properties.                                                             *)

\* Type invariant of the adapter's life.
LifeTypeOK ==
  /\ dev \in [Devices -> {"added", "starting", "started", "stopped", "lost",
                          "failed", "removed"}]
  /\ starts \in [Devices -> 0..MaxStarts]
  /\ common \in [Devices -> 0..MaxStarts]
  /\ heap.adapter \in [Adapters -> Int]
  /\ heap.port \in [Filters -> Int] /\ heap.miniport \in [Filters -> Int]
  /\ heap.instances \in {0, 1}
  /\ cache \in [Adapters -> SUBSET Kinds]
  /\ registered \subseteq Filters /\ children \subseteq Filters
  /\ bridged \subseteq Adapters /\ powered \subseteq Adapters
  /\ leaving \subseteq Adapters
  /\ handle \in [Clients -> Filters \union {NoFilter}]
  /\ allocated \in [Adapters -> 0..MaxStreams]

\* Nothing is released more often than it was referenced, and nothing that still
\* calls the adapter outlives it: the device extension, the power management of
\* PortCls, and the topology miniport, whose property handlers use
\* m_AdapterCommon for as long as a client has the filter open.
AdapterOutlivesItsUsers ==
  /\ \A f \in Filters : heap.port[f] >= 0 /\ heap.miniport[f] >= 0
  /\ \A a \in Adapters :
       /\ heap.adapter[a] >= 0
       /\ \/ common[a[1]] = a[2] \/ a \in powered
          \/ heap.miniport[<<a, "topology">>] > 0
          => heap.adapter[a] > 0

\* Once a device has left, PortCls has let go and the last handle is closed, no
\* adapter is left: the circle through the cache is broken and the next
\* StartDevice is not refused as busy.  That PortCls has its ports let go of
\* their miniports (children = {}) is assumed: without it the topology miniport
\* would keep the adapter for ever.  A failed allocation is the exception:
\* NewAdapterCommon leaves the instance taken for as long as the driver is loaded.
Quiet ==
  /\ \A d \in Devices : common[d] = 0 /\ dev[d] # "starting"
  /\ leaving = {} /\ children = {}
  /\ \A c \in Clients : handle[c] = NoFilter

AdapterIsReleased == Quiet => heap.instances = refused

\* A start says the truth about its filters: one that failed has none
\* registered, cached or connected, and one that succeeded can capture.  (It
\* may be without its topology, whose failure the wave filter's status hides.)
StartIsHonest ==
  \A d \in Devices :
    /\ dev[d] = "failed" /\ common[d] # 0 =>
         /\ registered \intersect ({Latest(d)} \X Kinds) = {}
         /\ cache[Latest(d)] = {} /\ Latest(d) \notin bridged
    /\ dev[d] = "started" => Filter(d, "wave") \in registered

\* The limit on streams counts the streams that are open, whatever became of
\* those that failed half-way and of the device they were opened on.
StreamsAreCounted ==
  \A a \in Adapters :
    allocated[a] = Cardinality({c \in Clients : handle[c] = <<a, "wave">>})
=============================================================================
