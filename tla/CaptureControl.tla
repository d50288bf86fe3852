--------------------------- MODULE CaptureControl ---------------------------
(***************************************************************************)
(* The control plane of the virtual microphone driver.  A client hands its *)
(* pages to CONNECT, which locks them, describes them as a region and      *)
(* publishes the region to the DMA fill; DISCONNECT, the cleanup of the    *)
(* closing handle and a PnP stop take it back and free it.  The fill takes *)
(* a reference under the spin lock and reads the region outside it.        *)
(*                                                                         *)
(* The driver keeps what is connected in two plain globals and says that   *)
(* the I/O manager serializes its requests.  That is true of the requests  *)
(* of one handle only, so Init chooses which of the two worlds this is.    *)
(***************************************************************************)
EXTENDS Naturals, FiniteSets

CONSTANTS
  Handles,       \* handles to the control device, one client each
  NoHandle,      \* no handle
  Pnp,           \* the thread of the PnP and unload requests
  MaxRegions     \* bound: regions ever allocated

ASSUME ControlAssumption ==
  /\ NoHandle \notin Handles /\ Pnp \notin Handles /\ Pnp # NoHandle
  /\ MaxRegions \in Nat

VARIABLES
  serialized,     \* TRUE: one request of the control plane runs at a time
  region,         \* AUDIENT_CAPTURE_REGION: its memory, fills and client, and
                  \* REGION_FLAG_CONNECTED in its header: "late" when it was
                  \* set by a sink that came after it had been cleared
  active,         \* g_AudientActiveRegion, 0 for NULL
  connected,      \* g_AudientProducerConnected
  connectedFile,  \* g_AudientConnectedFile
  pc,             \* where each thread is in its request
  mine,           \* the region that request holds, 0 for none
  opened,         \* the handles that are open
  fill            \* the region of the DMA fill that is running, 0 for none

requestVars == <<serialized, opened, fill>>
vars == <<serialized, region, active, connected, connectedFile,
          pc, mine, opened, fill>>

Threads == Handles \union {Pnp}
Regions == 1..MaxRegions

\* "attach" is the client, back from CONNECT, before it builds its sink.
InKernel(t) == pc[t] \notin {"idle", "attach"}
Quiescent == \A t \in Threads : ~InKernel(t)
MayEnter(t) == pc[t] = "idle" /\ (serialized => Quiescent)

----------------------------------------------------------------------------
Init ==
  /\ serialized \in BOOLEAN
  /\ region = [r \in Regions |-> [mem |-> "none", refs |-> 0, client |-> NoHandle,
                                  flag |-> "clear"]]
  /\ active = 0
  /\ connected = FALSE /\ connectedFile = NoHandle
  /\ pc = [t \in Threads |-> "idle"]
  /\ mine = [t \in Threads |-> 0]
  /\ opened = {}
  /\ fill = 0

GoTo(t, place) == pc' = [pc EXCEPT ![t] = place]

Open(h) ==
  /\ h \notin opened /\ pc[h] = "idle"
  /\ opened' = opened \union {h}
  /\ UNCHANGED <<serialized, region, active, connected, connectedFile,
                 pc, mine, fill>>

----------------------------------------------------------------------------
(* AudientConsoleCaptureRingPublish, RetireWaitAndFree and Reset. *)

\* One exchange under the spin lock; the thread is left with the previous one.
PublishRegion(t, r) ==
  /\ active' = r
  /\ mine' = [mine EXCEPT ![t] = active]

BadDrained(r) == TRUE

\* The wait for the fills of a retired region.  It gives up after 2000 spins of
\* a microsecond; a fill at DISPATCH_LEVEL is taken to be shorter than that.
Drained(r) == region[r].refs = 0

\* The pages of the region in hand are unlocked, its MDL and descriptor are freed.
FreeRegion(t) ==
  /\ region' = [region EXCEPT ![mine[t]].mem = "freed"]
  /\ mine' = [mine EXCEPT ![t] = 0]

RetireWaitAndFree(t) ==
  /\ Drained(mine[t])
  /\ FreeRegion(t)

----------------------------------------------------------------------------
(* CONNECT *)

ConnectCheck(h) ==
  /\ MayEnter(h) /\ h \in opened
  /\ ~connected
  /\ GoTo(h, "init")
  /\ UNCHANGED <<requestVars, region, active, connected, connectedFile, mine>>

\* A profile that the driver refuses, no memory for an MDL, or pages that cannot be
\* locked: an MDL that was built is freed on the spot, and nothing else was taken.
ConnectFails(h) ==
  /\ pc[h] = "init"
  /\ GoTo(h, "idle")
  /\ UNCHANGED <<requestVars, region, active, connected, connectedFile, mine>>

\* The client's pages are locked; only the local mdl knows of them.
ConnectLock(h) ==
  /\ pc[h] = "init"
  /\ \E r \in Regions :
       /\ \A q \in Regions : (region[q].mem = "none") <=> (q >= r)
       /\ region' = [region EXCEPT ![r] = [mem |-> "live", refs |-> 0, client |-> h,
                                           flag |-> "clear"]]
       /\ mine' = [mine EXCEPT ![h] = r]
  /\ GoTo(h, "describe")
  /\ UNCHANGED <<requestVars, active, connected, connectedFile>>

\* A descriptor takes over the MDL.  Without memory for it, or without a system
\* address for the pages, the local mdl keeps them and there is no descriptor.
ConnectDescribe(h) ==
  /\ pc[h] = "describe"
  /\ \E place \in {"header", "dropmdl"} : GoTo(h, place)
  /\ UNCHANGED <<requestVars, region, active, connected, connectedFile, mine>>

\* The header opens an epoch of its own and says "connected".
ConnectHeader(h) ==
  /\ pc[h] = "header"
  /\ region' = [region EXCEPT ![mine[h]].flag = "set"]
  /\ GoTo(h, "publish")
  /\ UNCHANGED <<requestVars, active, connected, connectedFile, mine>>

\* CaptureRingInit refuses the geometry; the descriptor is there already.
ConnectHeaderFails(h) ==
  /\ pc[h] = "header"
  /\ GoTo(h, "dropregion")
  /\ UNCHANGED <<requestVars, region, active, connected, connectedFile, mine>>

BadConnectUnwinds(h) ==
  /\ \/ pc[h] = "dropregion" /\ FreeRegion(h)
     \/ pc[h] = "dropmdl" /\ mine' = [mine EXCEPT ![h] = 0] /\ UNCHANGED region
  /\ GoTo(h, "idle")
  /\ UNCHANGED <<requestVars, active, connected, connectedFile>>

\* The cleanup at the end of a CONNECT that failed after it had locked the pages: they
\* are unlocked through the descriptor or, when there is none, through the local mdl.
\* Nothing waits for fills here: the region was never published.
ConnectUnwinds(h) ==
  /\ \/ pc[h] = "dropregion" /\ FreeRegion(h)
     \/ pc[h] = "dropmdl" /\ FreeRegion(h)
  /\ GoTo(h, "idle")
  /\ UNCHANGED <<requestVars, active, connected, connectedFile>>

ConnectPublish(h) ==
  /\ pc[h] = "publish"
  /\ PublishRegion(h, mine[h])
  /\ GoTo(h, IF active = 0 THEN "own" ELSE "freeprevious")
  /\ UNCHANGED <<requestVars, region, connected, connectedFile>>

ConnectFreePrevious(h) ==
  /\ pc[h] = "freeprevious"
  /\ RetireWaitAndFree(h)
  /\ GoTo(h, "own")
  /\ UNCHANGED <<requestVars, active, connected, connectedFile>>

ConnectOwn(h) ==
  /\ pc[h] = "own"
  /\ connected' = TRUE
  /\ GoTo(h, "ownfile")
  /\ UNCHANGED <<requestVars, region, active, connectedFile, mine>>

ConnectOwnFile(h) ==
  /\ pc[h] = "ownfile"
  /\ connectedFile' = h
  /\ GoTo(h, "attach")
  /\ UNCHANGED <<requestVars, region, active, connected, mine>>

\* Back in the client, SharedRingCaptureSink sets the flag of its own pages, also when
\* the driver has taken the region back in the meantime and cleared it.
AttachSink(h) ==
  /\ pc[h] = "attach"
  /\ \E r \in Regions :
       /\ region[r].client = h
       /\ \A q \in Regions : region[q].client = h => q <= r
       /\ region' = [region EXCEPT ![r].flag = IF @ = "set" THEN "set" ELSE "late"]
  /\ GoTo(h, "idle")
  /\ UNCHANGED <<requestVars, active, connected, connectedFile, mine>>

----------------------------------------------------------------------------
(* AudientControlPlaneUnbindProducer, and the three requests that call it. *)

UnbindPublish(t) ==
  /\ pc[t] = "unbind"
  /\ PublishRegion(t, 0)
  /\ GoTo(t, IF active = 0 THEN "disown" ELSE "clear")
  /\ UNCHANGED <<requestVars, region, connected, connectedFile>>

BadUnbindClear(t) ==
  /\ pc[t] = "clear"
  /\ GoTo(t, "free")
  /\ UNCHANGED <<requestVars, region, active, connected, connectedFile, mine>>

\* The shared header says "disconnected" before the pages go, whoever had set it.
UnbindClear(t) ==
  /\ pc[t] = "clear"
  /\ region' = [region EXCEPT ![mine[t]].flag = "clear"]
  /\ GoTo(t, "free")
  /\ UNCHANGED <<requestVars, active, connected, connectedFile, mine>>

UnbindFree(t) ==
  /\ pc[t] = "free"
  /\ RetireWaitAndFree(t)
  /\ GoTo(t, "disown")
  /\ UNCHANGED <<requestVars, active, connected, connectedFile>>

BadUnbindDisown(t) ==
  /\ pc[t] = "disown"
  /\ GoTo(t, "disownfile")
  /\ UNCHANGED <<requestVars, region, active, connected, connectedFile, mine>>

UnbindDisown(t) ==
  /\ pc[t] = "disown"
  /\ connected' = FALSE
  /\ GoTo(t, "disownfile")
  /\ UNCHANGED <<requestVars, region, active, connectedFile, mine>>

UnbindDisownFile(t) ==
  /\ pc[t] = "disownfile"
  /\ connectedFile' = NoHandle
  /\ GoTo(t, "idle")
  /\ UNCHANGED <<requestVars, region, active, connected, mine>>

IsProducer(h) == connected /\ connectedFile = h

Disconnect(h) ==
  /\ MayEnter(h) /\ h \in opened
  /\ IsProducer(h)
  /\ GoTo(h, "unbind")
  /\ UNCHANGED <<requestVars, region, active, connected, connectedFile, mine>>

\* A client may also die before it has built its sink.
MayClean(h) == ~InKernel(h) /\ (serialized => Quiescent)

\* The last close of a handle, a dying client's included.
Cleanup(h) ==
  /\ MayClean(h) /\ h \in opened
  /\ opened' = opened \ {h}
  /\ GoTo(h, IF IsProducer(h) THEN "unbind" ELSE "idle")
  /\ UNCHANGED <<serialized, fill, region, active, connected, connectedFile,
                 mine>>

\* PnP stop, removal and surprise removal, and the driver's unload.
Pause ==
  /\ MayEnter(Pnp)
  /\ connected
  /\ GoTo(Pnp, "unbind")
  /\ UNCHANGED <<requestVars, region, active, connected, connectedFile, mine>>

----------------------------------------------------------------------------
(* FLUSH and QUERY_STATE *)

\* The application flushes when its feeder has stopped; the heads that the flush
\* resets are left out.
FlushCheck(h) ==
  /\ MayEnter(h) /\ h \in opened
  /\ IsProducer(h)
  /\ GoTo(h, "reset")
  /\ UNCHANGED <<requestVars, region, active, connected, connectedFile, mine>>

\* Under the spin lock, once the fills of the active region have ended: the
\* header is initialized again and is left connected.
FlushReset(h) ==
  /\ pc[h] = "reset"
  /\ \/ active = 0 /\ UNCHANGED region
     \/ /\ active # 0 /\ Drained(active)
        /\ region' = [region EXCEPT ![active].flag = "set"]
  /\ GoTo(h, "idle")
  /\ UNCHANGED <<requestVars, active, connected, connectedFile, mine>>

\* The pointer is taken without the lock and without a reference ...
QueryPointer(h) ==
  /\ MayEnter(h) /\ h \in opened
  /\ active # 0
  /\ mine' = [mine EXCEPT ![h] = active]
  /\ GoTo(h, "query")
  /\ UNCHANGED <<requestVars, region, active, connected, connectedFile>>

\* ... and the counters are read through it.
QueryRead(h) ==
  /\ pc[h] = "query"
  /\ mine' = [mine EXCEPT ![h] = 0]
  /\ GoTo(h, "idle")
  /\ UNCHANGED <<requestVars, region, active, connected, connectedFile>>

----------------------------------------------------------------------------
(* The DMA fill; with no region it gives silence and leaves no trace. *)

FillBegin ==
  /\ fill = 0 /\ active # 0
  /\ region' = [region EXCEPT ![active].refs = @ + 1]
  /\ fill' = active
  /\ UNCHANGED <<serialized, opened, active, connected, connectedFile, pc, mine>>

BadFillEnd ==
  /\ fill # 0
  /\ fill' = 0
  /\ UNCHANGED <<serialized, opened, region, active, connected, connectedFile,
                 pc, mine>>

FillEnd ==
  /\ fill # 0
  /\ region' = [region EXCEPT ![fill].refs = @ - 1]
  /\ fill' = 0
  /\ UNCHANGED <<serialized, opened, active, connected, connectedFile, pc, mine>>

----------------------------------------------------------------------------
\* A request that has begun runs to its end.
Proceed(t) ==
  \/ UnbindPublish(t) \/ UnbindClear(t) \/ UnbindFree(t)
  \/ UnbindDisown(t) \/ UnbindDisownFile(t)
  \/ /\ t \in Handles
     /\ \/ ConnectFails(t) \/ ConnectLock(t) \/ ConnectDescribe(t)
        \/ ConnectHeader(t) \/ ConnectHeaderFails(t) \/ ConnectUnwinds(t)
        \/ ConnectPublish(t) \/ ConnectFreePrevious(t)
        \/ ConnectOwn(t) \/ ConnectOwnFile(t)
        \/ AttachSink(t) \/ FlushReset(t) \/ QueryRead(t)

Request ==
  \/ Pause
  \/ \E h \in Handles : \/ Open(h) \/ ConnectCheck(h) \/ Disconnect(h)
                        \/ Cleanup(h) \/ FlushCheck(h) \/ QueryPointer(h)

Next == Request \/ (\E t \in Threads : Proceed(t)) \/ FillBegin \/ FillEnd

\* Requests that were accepted and fills that were begun end; nobody has to
\* make another one.
Fairness ==
  /\ \A t \in Threads : WF_vars(Proceed(t))
  /\ WF_vars(FillEnd)

Spec == Init /\ [][Next]_vars /\ Fairness

----------------------------------------------------------------------------
(* Properties *)

\* Where a thread may be, and what a region may be.
Place == {"idle", "attach", "init", "describe", "header", "dropmdl", "dropregion",
          "publish", "freeprevious", "own", "ownfile", "unbind", "clear", "free",
          "disown", "disownfile", "reset", "query"}

Region == [mem : {"none", "live", "freed"}, refs : 0..1,
           client : Handles \union {NoHandle}, flag : {"clear", "set", "late"}]

\* Every variable has its type; reference counts are never negative.
TypeOK ==
  /\ serialized \in BOOLEAN
  /\ region \in [Regions -> Region]
  /\ active \in 0..MaxRegions
  /\ connected \in BOOLEAN
  /\ connectedFile \in Handles \union {NoHandle}
  /\ pc \in [Threads -> Place]
  /\ mine \in [Threads -> 0..MaxRegions]
  /\ opened \in SUBSET Handles
  /\ fill \in 0..MaxRegions

\* A running fill never touches pages that are unlocked or a descriptor that is
\* freed, however the requests interleave.
NoFillOnFreed == fill # 0 => region[fill].mem = "live"

\* The places at which a thread has a region in hand, to publish it or to free it.
Held == {"describe", "header", "dropmdl", "dropregion", "publish", "freeprevious",
         "clear", "free"}

Holders(r) == {t \in Threads : mine[t] = r /\ pc[t] \in Held}

\* Locked pages are never lost and never freed twice, however the requests overlap and
\* wherever a CONNECT fails: every region that is not freed is either published or in
\* the hand of one request, and no other is.
EveryRegionHasOneHolder ==
  \A r \in Regions :
    Cardinality(Holders(r)) + (IF active = r THEN 1 ELSE 0)
      = (IF region[r].mem = "live" THEN 1 ELSE 0)

\* With requests that are serialized, the globals agree with the published
\* region whenever no request runs: its client is the connected one and has its
\* handle open, so no pages stay locked after the last close.
ConnectionIsConsistent ==
  serialized /\ Quiescent =>
    /\ connected <=> active # 0
    /\ connected => connectedFile = region[active].client /\ connectedFile \in opened

\* With requests that are serialized, a client whose region was taken back sees
\* WRITE_DISCONNECTED and does not fill an orphan, whether the driver or its own sink
\* had set the flag; only a sink that is built after the region was taken back, and
\* sets the flag once more, goes unnoticed ("late").
ConnectedFlagIsCleared ==
  serialized /\ Quiescent =>
    \A r \in Regions : region[r].flag = "set" => active = r

\* Pages that were taken back from the DMA are unlocked in the end.
RetiredIsFreed ==
  \A r \in Regions : (region[r].mem = "live" /\ active # r) ~>
                       (region[r].mem = "freed" \/ active = r)
=============================================================================
