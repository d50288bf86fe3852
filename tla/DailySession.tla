---------------------------- MODULE DailySession ----------------------------
(***************************************************************************)
(* The daily application's one stream and everyone who works on it: the    *)
(* watchdog thread with its recovery controller, the main thread's         *)
(* teardown, the user interface, which asks for buffer sizes, and the      *)
(* driver's callback.  A stream that is lost or reconfigured is closed and *)
(* rebuilt from nothing.  What the user hears is in RenderControl.         *)
(*                                                                         *)
(* Time is left out.  The 250 ms between two polls may be over at any      *)
(* round of the watchdog; a round stands for the 150 ms of a stall, except *)
(* that there is none while the driver calls back, and for the 750 ms      *)
(* between two attempts.                                                   *)
(***************************************************************************)
EXTENDS AsioStream

CONSTANTS
  MaxEvents     \* bound: losses, panel changes and buffer requests

ASSUME SessionAssumption == MaxEvents \in Nat

VARIABLES
  session,      \* m_session, 0 for null
  rebuilding,   \* m_rebuilding
  published,    \* m_publishedBuffer
  requested,    \* m_requestedBuffer, 0 when none was asked for
  actualRateOk, \* what m_publishedActualRate says; not polled yet counts as right
  mismatch,     \* rateMismatchActive
  recovery,     \* AsioRecoveryController: "Streaming" or "Lost"
  idle,         \* its stall detector: no baseline, moving or armed
  counted,      \* whether a callback was counted since the detector looked
  reconfigure,  \* audioReconfigureRequested
  simulated,    \* simulatedLossTriggered; without the option it stays FALSE
  first,        \* m_firstBuffer
  ui,           \* where the user interface is in its handler
  stop,         \* requestStop and g_stop
  pc,           \* where the watchdog and the main thread are
  taken,        \* the stream each has moved out of m_session or is building
  after,        \* where each goes once that stream is torn down
  events        \* how many there were

Watchdog == "watchdog"
Main == "main"
Threads == {Watchdog, Main}

settings == <<rebuilding, published, requested, first>>
polled == <<actualRateOk, mismatch>>
controller == <<recovery, idle>>
users == <<reconfigure, simulated, ui, stop>>
thread == <<pc, taken, after>>
vars == <<streamVars, session, settings, polled, controller, counted, users,
          thread, events>>

Disturbs == events < MaxEvents /\ events' = events + 1

GoTo(t, place) == pc' = [pc EXCEPT ![t] = place]

\* 64, then 128, then the driver's preferred one: the first that can be had.
Usable(size) == size <= MaxBlock /\ size \notin Refused
FirstUsable(size) == Usable(size) /\ \A b \in Sizes : Usable(b) => size <= b

\* The first stream was opened by the main thread; it is being faded in when the
\* watchdog starts.
Init ==
  /\ \E s \in Streams : \E size \in Sizes :
       /\ \A z \in Streams : s <= z
       /\ FirstUsable(size)
       /\ stream = [z \in Streams |->
            IF z # s THEN Unused
            ELSE [Unused EXCEPT !.mem = "live", !.backend = "Streaming",
                                !.driver = "running", !.attached = TRUE, !.buffer = size,
                                !.fade = [FadeConfigured EXCEPT !.desired = "FadingIn"]]]
       /\ activeDriver = s /\ session = s
       /\ published = size /\ first = size
       /\ device = [present |-> TRUE, preferred |-> size, rateOk |-> TRUE]
  /\ callback = 0
  /\ rebuilding = FALSE /\ requested = 0
  /\ actualRateOk = TRUE /\ mismatch = FALSE
  /\ recovery = "Streaming" /\ idle = "nobaseline" /\ counted = FALSE
  /\ reconfigure = FALSE /\ simulated = FALSE
  /\ ui = "idle"
  /\ stop = FALSE
  /\ pc = [t \in Threads |-> IF t = Watchdog THEN "flag" ELSE "running"]
  /\ taken = [t \in Threads |-> 0]
  /\ after = [t \in Threads |-> "none"]
  /\ events = 0

----------------------------------------------------------------------------
(* DemoAsioStream: the stream is moved out under the lock, the rest is done *)
(* outside it.                                                              *)

TakeSession(t, place, then) ==
  /\ taken' = [taken EXCEPT ![t] = session]
  /\ after' = [after EXCEPT ![t] = then]
  /\ GoTo(t, IF session = 0 THEN then ELSE place)
  /\ session' = 0

\* gracefulTeardown and reconfigureTeardown begin with a fade, closeStream and
\* dispose do not.
Teardown(t, then) == TakeSession(t, "fade", then)
CloseStream(t, then) == TakeSession(t, "detach", then)

TearingDown(t, place) ==
  /\ pc[t] = place
  /\ UNCHANGED <<session, settings, polled, controller, counted, users, events, after>>

FadeBegins(t) ==
  /\ TearingDown(t, "fade")
  /\ RequestFadeOut(taken[t])
  /\ GoTo(t, "wait")
  /\ UNCHANGED taken

Graceful(t) == after[t] \in {"simulatedloss", "dispose"}

\* Three seconds are long enough for the fade of a driver that calls back; the
\* 100 ms of a reconfiguration need not be.
GivesUp(t) == Graceful(t) => ~Calls(taken[t])

FadeEnds(t) ==
  /\ TearingDown(t, "wait")
  /\ stream[taken[t]].fade.muted \/ GivesUp(t)
  /\ GoTo(t, "stop")
  /\ UNCHANGED <<streamVars, taken>>

StopStream(t) ==
  /\ TearingDown(t, "stop")
  /\ StopBegins(taken[t])
  /\ GoTo(t, "stopped")
  /\ UNCHANGED taken

StreamStopped(t) ==
  /\ TearingDown(t, "stopped")
  /\ StopEnds(taken[t])
  /\ GoTo(t, "detach")
  /\ UNCHANGED taken

DetachStream(t) ==
  /\ TearingDown(t, "detach")
  /\ Detach(taken[t])
  /\ GoTo(t, "destroy")
  /\ UNCHANGED taken

DestroyStream(t) ==
  /\ TearingDown(t, "destroy")
  /\ Destroy(taken[t])
  /\ taken' = [taken EXCEPT ![t] = 0]
  /\ GoTo(t, after[t])

TeardownStep(t) == \/ FadeBegins(t) \/ FadeEnds(t) \/ StopStream(t)
                   \/ StreamStopped(t) \/ DetachStream(t) \/ DestroyStream(t)

----------------------------------------------------------------------------
(* openAndStart and buildAndStart, called by the watchdog's tick *)

Building(place) ==
  /\ pc[Watchdog] = place
  /\ UNCHANGED <<polled, users, events, after>>

SelectsDevice ==
  /\ Building("open")
  /\ \E s \in Streams :
       /\ SelectDevice(s)
       /\ taken' = [taken EXCEPT ![Watchdog] = s]
  /\ GoTo(Watchdog, "configure")
  /\ UNCHANGED <<session, settings, controller, counted>>

\* The attempt failed: m_rebuilding stays set, the next one comes.
OpenFails ==
  /\ Building("open")
  /\ ~device.present
  /\ GoTo(Watchdog, "flag")
  /\ UNCHANGED <<streamVars, session, settings, controller, counted, taken>>

\* What was asked for, else what was first negotiated.
Desired == IF requested # 0 THEN requested ELSE first

BufferChoice(size) == IF Usable(Desired) THEN size = Desired ELSE FirstUsable(size)

Configures ==
  /\ Building("configure")
  /\ \E size \in Sizes : BufferChoice(size) /\ Configure(taken[Watchdog], size)
  /\ GoTo(Watchdog, "wire")
  /\ UNCHANGED <<session, settings, controller, counted, taken>>

\* The candidate is destroyed without a session ever seeing it.
BuildFails(place) ==
  /\ pc[Watchdog] = place
  /\ stream[taken[Watchdog]].driver = "dead"
  /\ after' = [after EXCEPT ![Watchdog] = "flag"]
  /\ GoTo(Watchdog, "detach")
  /\ UNCHANGED <<streamVars, session, settings, polled, controller, counted, users,
                 events, taken>>

Wires ==
  /\ Building("wire")
  /\ WireAndAttach(taken[Watchdog])
  /\ GoTo(Watchdog, "start")
  /\ UNCHANGED <<session, settings, controller, counted, taken>>

Starts ==
  /\ Building("start")
  /\ Start(taken[Watchdog])
  /\ GoTo(Watchdog, "swap")
  /\ UNCHANGED <<session, settings, controller, counted, taken>>

Swaps ==
  /\ Building("swap")
  /\ session' = taken[Watchdog]
  /\ taken' = [taken EXCEPT ![Watchdog] = 0]
  /\ GoTo(Watchdog, "publish")
  /\ UNCHANGED <<streamVars, settings, controller, counted>>

\* m_publishedBuffer, m_rebuilding and, back in the tick, markStreaming.
BadPublishes ==
  /\ Building("publish")
  /\ published' = stream[session].buffer
  /\ recovery' = "Streaming" /\ idle' = "nobaseline" /\ counted' = FALSE
  /\ GoTo(Watchdog, "flag")
  /\ UNCHANGED <<streamVars, session, rebuilding, requested, first, taken>>

Publishes ==
  /\ Building("publish")
  /\ published' = stream[session].buffer
  /\ rebuilding' = FALSE
  /\ recovery' = "Streaming" /\ idle' = "nobaseline" /\ counted' = FALSE
  /\ GoTo(Watchdog, "flag")
  /\ UNCHANGED <<streamVars, session, requested, first, taken>>

----------------------------------------------------------------------------
(* The watchdog's loop *)

At(place) ==
  /\ pc[Watchdog] = place
  /\ UNCHANGED <<streamVars, events, first, ui, stop, published>>

Exits ==
  /\ At("flag") /\ stop
  /\ GoTo(Watchdog, "exited")
  /\ UNCHANGED <<session, rebuilding, requested, polled, controller, counted,
                 reconfigure, simulated, taken, after>>

\* audioReconfigureRequested.exchange(false)
ChecksFlag ==
  /\ At("flag") /\ ~stop
  /\ reconfigure' = FALSE
  /\ IF reconfigure THEN Teardown(Watchdog, "reconfigured")
     ELSE GoTo(Watchdog, "poll") /\ UNCHANGED <<session, taken, after>>
  /\ UNCHANGED <<rebuilding, requested, polled, controller, counted, simulated>>

\* requestReconfigure; its closeStream finds no stream any more.
RequestsReconfigure(place, next) ==
  /\ At(place)
  /\ recovery' = "Lost"
  /\ idle' = IF recovery = "Streaming" /\ idle = "armed" THEN "moving" ELSE idle
  /\ GoTo(Watchdog, next)
  /\ UNCHANGED <<session, rebuilding, requested, polled, counted, reconfigure,
                 simulated, taken, after>>

NotDue ==
  /\ At("poll")
  /\ GoTo(Watchdog, "simulate")
  /\ UNCHANGED <<session, rebuilding, requested, polled, controller, counted,
                 reconfigure, simulated, taken, after>>

Answers == session # 0 /\ stream[session].driver # "dead"

BadPollsRate ==
  /\ At("poll")
  /\ actualRateOk' = IF Answers THEN device.rateOk ELSE actualRateOk
  /\ mismatch' = IF rebuilding THEN mismatch ELSE ~actualRateOk'
  /\ GoTo(Watchdog, "pollbuffer")
  /\ UNCHANGED <<session, rebuilding, requested, controller, counted, reconfigure,
                 simulated, taken, after>>

\* pollActualRate, and one attempt to restore the rate after each sight of a
\* right one.
PollsRate ==
  /\ At("poll")
  /\ actualRateOk' = IF Answers THEN device.rateOk ELSE actualRateOk
  /\ mismatch' = IF rebuilding THEN mismatch ELSE ~actualRateOk'
  /\ IF mismatch' /\ ~mismatch THEN Teardown(Watchdog, "raterestored")
     ELSE GoTo(Watchdog, "pollbuffer") /\ UNCHANGED <<session, taken, after>>
  /\ UNCHANGED <<rebuilding, requested, controller, counted, reconfigure, simulated>>

\* The panel's size is adopted, or the running one is restored.
PollsBuffer ==
  /\ At("pollbuffer")
  /\ IF ~rebuilding /\ Answers /\ device.preferred # published
       THEN /\ requested' = IF device.preferred <= MaxBlock THEN device.preferred
                            ELSE published
            /\ Teardown(Watchdog, "bufferadopted")
       ELSE /\ GoTo(Watchdog, "simulate")
            /\ UNCHANGED <<session, requested, taken, after>>
  /\ UNCHANGED <<rebuilding, polled, controller, counted, reconfigure, simulated>>

BadSimulatesLoss ==
  /\ pc[Watchdog] = "simulate" /\ ~simulated
  /\ Disturbs
  /\ simulated' = TRUE
  /\ CloseStream(Watchdog, "simulatedloss")
  /\ UNCHANGED <<streamVars, settings, polled, controller, counted, reconfigure,
                 ui, stop>>

\* The diagnostic option stops the stream before it is closed.
SimulatesLoss ==
  /\ pc[Watchdog] = "simulate" /\ ~simulated
  /\ Disturbs
  /\ simulated' = TRUE
  /\ Teardown(Watchdog, "simulatedloss")
  /\ UNCHANGED <<streamVars, settings, polled, controller, counted, reconfigure,
                 ui, stop>>

NoSimulation ==
  /\ At("simulate")
  /\ GoTo(Watchdog, "tick")
  /\ UNCHANGED <<session, rebuilding, requested, polled, controller, counted,
                 reconfigure, simulated, taken, after>>

Ticks ==
  /\ At("tick")
  /\ UNCHANGED <<requested, polled, reconfigure, simulated>>

StallMayElapse == session # 0 => ~Calls(session) /\ callback # session

\* Callbacks are counted, or their absence has begun.
TicksStreaming ==
  /\ Ticks
  /\ \/ stop
     \/ recovery = "Streaming" /\ ~(idle = "armed" /\ ~counted /\ StallMayElapse)
  /\ idle' = IF stop THEN idle
             ELSE IF counted \/ idle = "nobaseline" THEN "moving" ELSE "armed"
  /\ counted' = FALSE
  /\ GoTo(Watchdog, "flag")
  /\ UNCHANGED <<session, rebuilding, recovery, taken, after>>

Stalls ==
  /\ Ticks
  /\ ~stop /\ recovery = "Streaming"
  /\ idle = "armed" /\ ~counted
  /\ StallMayElapse
  /\ CloseStream(Watchdog, "lost")
  /\ UNCHANGED <<rebuilding, controller, counted>>

\* The rest of enterLost.
EntersLost(place, next) ==
  /\ At(place)
  /\ recovery' = "Lost" /\ idle' = "moving"
  /\ GoTo(Watchdog, next)
  /\ UNCHANGED <<session, rebuilding, requested, polled, counted, reconfigure,
                 simulated, taken, after>>

\* The 750 ms are over: openAndStart.
Retries ==
  /\ Ticks
  /\ ~stop /\ recovery = "Lost"
  /\ rebuilding' = TRUE
  /\ GoTo(Watchdog, "open")
  /\ UNCHANGED <<session, controller, counted, taken, after>>

WatchdogStep ==
  \/ Exits \/ ChecksFlag \/ NotDue \/ PollsRate \/ PollsBuffer
  \/ SimulatesLoss \/ NoSimulation \/ TicksStreaming \/ Stalls \/ Retries
  \/ RequestsReconfigure("reconfigured", "poll")
  \/ RequestsReconfigure("raterestored", "pollbuffer")
  \/ RequestsReconfigure("bufferadopted", "simulate")
  \/ EntersLost("lost", "flag") \/ EntersLost("simulatedloss", "tick")
  \/ SelectsDevice \/ OpenFails \/ Configures \/ Wires \/ Starts \/ Swaps \/ Publishes
  \/ BuildFails("configure") \/ BuildFails("start")

----------------------------------------------------------------------------
(* The main thread: the control loop is left, the watchdog is joined first. *)

InMain(place) ==
  /\ pc[Main] = place
  /\ UNCHANGED <<streamVars, settings, polled, controller, counted, events, reconfigure,
                 simulated, ui>>

RequestsStop ==
  /\ InMain("running") /\ ~stop
  /\ stop' = TRUE
  /\ UNCHANGED <<session, thread>>

LeavesLoop ==
  /\ InMain("running") /\ stop /\ ui = "idle"
  /\ GoTo(Main, "join")
  /\ UNCHANGED <<session, stop, taken, after>>

Joins ==
  /\ InMain("join")
  /\ pc[Watchdog] = "exited"
  /\ Teardown(Main, "dispose")
  /\ UNCHANGED stop

Disposes ==
  /\ InMain("dispose")
  /\ CloseStream(Main, "done")
  /\ UNCHANGED stop

MainStep == LeavesLoop \/ Joins \/ Disposes

----------------------------------------------------------------------------
(* The user interface *)

InUi(from, to) ==
  /\ ui = from /\ pc[Main] = "running"
  /\ ui' = to
  /\ UNCHANGED <<session, polled, controller, counted, simulated, stop, thread,
                 activeDriver, callback, device, published, first>>

\* setBufferCommand: nothing is asked for while a rebuild is seen to be on ...
RequestsBuffer ==
  /\ InUi("idle", "requesting")
  /\ Disturbs
  /\ ~rebuilding
  /\ UNCHANGED <<stream, rebuilding, requested, reconfigure>>

\* ... but it may begin before the request is staged.
StagesBuffer ==
  /\ InUi("requesting", "staged")
  /\ \E b \in Sizes : /\ b <= MaxBlock /\ b # published /\ b # requested
                      /\ requested' = b
  /\ UNCHANGED <<stream, rebuilding, reconfigure, events>>

\* The size is running already, was asked for already, or is not supported.
IgnoresRequest ==
  /\ InUi("requesting", "idle")
  /\ UNCHANGED <<stream, rebuilding, requested, reconfigure, events>>

MarksReconfiguring ==
  /\ InUi("staged", "marked")
  /\ rebuilding' = TRUE
  /\ UNCHANGED <<stream, requested, reconfigure, events>>

BadSetsFlag ==
  /\ InUi("marked", "idle")
  /\ reconfigure' = (recovery = "Streaming")
  /\ UNCHANGED <<stream, rebuilding, requested, events>>

SetsFlag ==
  /\ InUi("marked", "idle")
  /\ reconfigure' = TRUE
  /\ UNCHANGED <<stream, rebuilding, requested, events>>

UiHandler == StagesBuffer \/ IgnoresRequest \/ MarksReconfiguring \/ SetsFlag

----------------------------------------------------------------------------
Outside == UNCHANGED <<session, settings, polled, controller, users, thread>>

Called ==
  /\ CallbackBegins /\ Outside
  /\ counted' = TRUE /\ UNCHANGED events

Returned == CallbackEnds /\ Outside /\ UNCHANGED <<counted, events>>

Happens ==
  /\ Disturbs
  /\ DeviceLost \/ PanelBuffer \/ PanelRate
  /\ Outside /\ UNCHANGED counted

Returns == DeviceReturns /\ Outside /\ UNCHANGED <<counted, events>>

Next ==
  \/ \E t \in Threads : TeardownStep(t)
  \/ WatchdogStep \/ MainStep \/ RequestsStop
  \/ RequestsBuffer \/ UiHandler
  \/ Called \/ Returned \/ Happens \/ Returns

\* Threads go on, the driver's included while it calls back, and the 250 ms of the
\* watchdog's poll are over again and again.  Nobody has to request or to stop.
Fairness ==
  /\ WF_vars(WatchdogStep \/ TeardownStep(Watchdog)) /\ SF_vars(PollsRate)
  /\ WF_vars(MainStep \/ TeardownStep(Main))
  /\ WF_vars(UiHandler)
  /\ WF_vars(Called \/ Returned)

Spec == Init /\ [][Next]_vars /\ Fairness

----------------------------------------------------------------------------
(* Properties *)

\* Every variable has its type.
TypeOK ==
  /\ StreamTypeOK
  /\ session \in Streams \union {0}
  /\ rebuilding \in BOOLEAN /\ published \in Sizes /\ first \in Sizes
  /\ requested \in Sizes \union {0}
  /\ actualRateOk \in BOOLEAN /\ mismatch \in BOOLEAN
  /\ recovery \in {"Streaming", "Lost"}
  /\ idle \in {"nobaseline", "moving", "armed"} /\ counted \in BOOLEAN
  /\ reconfigure \in BOOLEAN /\ simulated \in BOOLEAN
  /\ ui \in {"idle", "requesting", "staged", "marked"} /\ stop \in BOOLEAN
  /\ taken \in [Threads -> Streams \union {0}]
  /\ events \in 0..MaxEvents

\* The driver's callback never runs on a stream that was freed, whoever tears it
\* down and whenever the device goes.
NoCallbackOnFreed == callback # 0 => stream[callback].mem = "live"

\* A stream that could be heard at full level when its fade-out was asked for, by
\* a shutdown or a simulated loss, is silent when its running driver is stopped.
GracefulStopIsSilent ==
  \A t \in Threads :
    pc[t] = "stop" /\ Graceful(t) /\ Calls(taken[t]) /\ stream[taken[t]].wasFull
      => stream[taken[t]].fade.value = 0

Streaming == session # 0 /\ Calls(session) /\ recovery = "Streaming"

\* A device that stays is streamed from in the end, after losses in any place,
\* and the interface is not left in "reconfiguring".
Recovers == <>[](device.present) => <>[](stop \/ (Streaming /\ ~rebuilding))

\* The buffer size that was last asked for, here or in the driver's panel, is the
\* one that runs in the end, unless the driver refuses it.
BufferIsHonoured ==
  <>[](device.present) =>
    <>[](stop \/ (Streaming /\ stream[session].buffer = device.preferred
                  /\ (Usable(requested) /\ requested # 0 => requested = device.preferred)))

\* A sample rate that is changed while the watchdog has no mismatch on record is
\* restored, unless the device goes.  (While one is on record nothing is tried.)
RateIsRestored ==
  (~device.rateOk /\ ~mismatch) ~> (device.rateOk \/ stop \/ ~device.present)
=============================================================================
