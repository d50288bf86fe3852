----------------------------- MODULE AsioStream -----------------------------
(***************************************************************************)
(* One opened ASIO stream after another: the backend with its device       *)
(* state, the native driver object, the routing adapter that is attached   *)
(* to it, its stream fade, and the driver's callback.  A stream has no     *)
(* specification of its own: DailySession is the program that opens and    *)
(* closes it.                                                              *)
(*                                                                         *)
(* The driver and its device are external.  A device that goes away, or a  *)
(* driver that is told to stop by its own panel, ends the callbacks of     *)
(* that driver object for good ("dead"); ASIO's stop() returns when no     *)
(* callback runs; and what createBuffers was given is from then on the     *)
(* driver's preferred buffer size.                                         *)
(***************************************************************************)
EXTENDS Naturals, FiniteSets

CONSTANTS
  Streams,     \* places for streams; one that was freed is used again
  Sizes,       \* the buffer sizes the driver's panel offers
  Refused,     \* those that createBuffers refuses
  MaxBlock,    \* kMaxBlock: the largest size the engine has memory for
  FadeTotal    \* length of the fade, in blocks

ASSUME StreamAssumption ==
  /\ Streams \subseteq Nat \ {0}
  /\ Refused \subseteq Sizes /\ Sizes \subseteq Nat \ {0}
  /\ MaxBlock \in Nat /\ FadeTotal \in Nat
  /\ \E size \in Sizes \ Refused : size <= MaxBlock

VARIABLES
  stream,        \* the streams: backend, driver, adapter and fade
  activeDriver,  \* NativeAsioDriver::s_activeDriver, 0 for none
  callback,      \* the stream whose callback is running, 0 for none
  device         \* [present, preferred, rateOk]: the interface and its panel

streamVars == <<stream, activeDriver, callback, device>>

----------------------------------------------------------------------------
(* StreamFade: 0 is silence, 2 is full, 1 is anything between. *)

FadeConfigured ==
  [desired |-> "Muted", current |-> "Muted", position |-> 0,
   value |-> 0, start |-> 0, target |-> 0, muted |-> TRUE, full |-> FALSE]

Rearm(f) ==
  [f EXCEPT !.current = f.desired, !.position = 0, !.start = f.value,
            !.target = IF f.desired = "FadingIn" THEN 2 ELSE 0]

\* The fade arrives; where it started from is then of no use to anyone.
BadSettle(f) ==
  [f EXCEPT !.value = f.target, !.start = f.target, !.full = (f.target # 0),
            !.current = IF f.target = 0 THEN "Muted" ELSE "FadingIn"]

Settle(f) ==
  [f EXCEPT !.value = f.target, !.start = f.target,
            !.muted = (f.target = 0), !.full = (f.target # 0),
            !.current = IF f.target = 0 THEN "Muted" ELSE "FadingIn"]

Step(f) ==
  IF f.position >= FadeTotal THEN Settle(f)
  ELSE [f EXCEPT !.position = @ + 1,
                 !.value = IF f.position = 0 \/ f.start = f.target THEN f.start ELSE 1]

\* The envelope of one block.
FadeNext(f) == Step(IF f.desired # f.current THEN Rearm(f) ELSE f)

----------------------------------------------------------------------------
(* The backend and its driver object *)

Unused == [mem |-> "freed", backend |-> "Idle", driver |-> "none", attached |-> FALSE,
           fade |-> FadeConfigured, buffer |-> 0, wasFull |-> FALSE]

Free == {s \in Streams : stream[s].mem = "freed" /\ callback # s}

\* AsioBackend::selectDevice: idle, opening, ready.
SelectDevice(s) ==
  /\ s \in Free /\ \A z \in Free : s <= z
  /\ device.present
  /\ stream' = [stream EXCEPT ![s] = [Unused EXCEPT !.mem = "live", !.backend = "Ready",
                                                    !.driver = "opened"]]
  /\ UNCHANGED <<activeDriver, callback, device>>

\* AsioBackend::configure: the sample rate is set, the buffers are created.
CanConfigure(s, size) ==
  stream[s].backend = "Ready" /\ stream[s].driver # "dead" /\ size \notin Refused

Configure(s, size) ==
  /\ CanConfigure(s, size)
  /\ stream' = [stream EXCEPT ![s].driver = "prepared", ![s].buffer = size]
  /\ activeDriver' = s
  /\ device' = [device EXCEPT !.preferred = size, !.rateOk = TRUE]
  /\ UNCHANGED callback

\* The adapter is wired, attached and told to fade in.
WireAndAttach(s) ==
  /\ stream' = [stream EXCEPT ![s].attached = TRUE,
                              ![s].fade = [FadeConfigured EXCEPT !.desired = "FadingIn"]]
  /\ UNCHANGED <<activeDriver, callback, device>>

\* AsioBackend::start
Start(s) ==
  /\ stream[s].backend = "Ready" /\ stream[s].driver = "prepared"
  /\ stream' = [stream EXCEPT ![s].backend = "Streaming", ![s].driver = "running"]
  /\ UNCHANGED <<activeDriver, callback, device>>

RequestFadeOut(s) ==
  /\ stream' = [stream EXCEPT ![s].fade.desired = "FadingOut",
                              ![s].wasFull = stream[s].fade.full]
  /\ UNCHANGED <<activeDriver, callback, device>>

\* AsioBackend::stop: the state, then the driver's stop(), which waits for its callback.
StopBegins(s) ==
  /\ stream' = [stream EXCEPT ![s].backend = IF @ = "Streaming" THEN "Stopping" ELSE "Ready"]
  /\ UNCHANGED <<activeDriver, callback, device>>

StopEnds(s) ==
  /\ callback # s
  /\ stream' = [stream EXCEPT ![s].backend = "Ready",
                              ![s].driver = IF @ = "running" THEN "prepared" ELSE @]
  /\ UNCHANGED <<activeDriver, callback, device>>

Detach(s) ==
  /\ stream' = [stream EXCEPT ![s].attached = FALSE]
  /\ UNCHANGED <<activeDriver, callback, device>>

\* The adapter goes, then the backend with its driver object, which disposes of
\* its buffers (and calls stop() on the way).
Destroy(s) ==
  /\ stream' = [stream EXCEPT ![s] = Unused]
  /\ activeDriver' = IF activeDriver = s THEN 0 ELSE activeDriver
  /\ UNCHANGED <<callback, device>>

----------------------------------------------------------------------------
(* The driver's thread *)

\* Once stop() is called no callback begins; one that runs goes on to its end.
Calls(s) == stream[s].driver = "running" /\ stream[s].backend = "Streaming"

\* The static bufferSwitch goes through s_activeDriver, whoever called it.
CallbackBegins ==
  /\ callback = 0 /\ activeDriver # 0
  /\ \E s \in Streams : Calls(s)
  /\ callback' = activeDriver
  /\ UNCHANGED <<stream, activeDriver, device>>

\* The adapter's block, faded by its envelope.
CallbackEnds ==
  /\ callback # 0
  /\ stream' = IF stream[callback].attached
                 THEN [stream EXCEPT ![callback].fade = FadeNext(@)] ELSE stream
  /\ callback' = 0
  /\ UNCHANGED <<activeDriver, device>>

----------------------------------------------------------------------------
(* The interface and its panel *)

Dead(s) == IF stream[s].driver = "none" THEN stream[s]
           ELSE [stream[s] EXCEPT !.driver = "dead"]

DeviceLost ==
  /\ device.present
  /\ device' = [device EXCEPT !.present = FALSE]
  /\ stream' = [s \in Streams |-> Dead(s)]
  /\ UNCHANGED <<activeDriver, callback>>

DeviceReturns ==
  /\ ~device.present
  /\ device' = [device EXCEPT !.present = TRUE]
  /\ UNCHANGED <<stream, activeDriver, callback>>

\* The panel chooses another buffer size; the driver may stop calling back.
PanelBuffer ==
  /\ device.present
  /\ \E b \in Sizes \ {device.preferred} : device' = [device EXCEPT !.preferred = b]
  /\ \/ UNCHANGED stream
     \/ stream' = [s \in Streams |-> IF Calls(s) THEN Dead(s) ELSE stream[s]]
  /\ UNCHANGED <<activeDriver, callback>>

PanelRate ==
  /\ device.present /\ device.rateOk
  /\ device' = [device EXCEPT !.rateOk = FALSE]
  /\ UNCHANGED <<stream, activeDriver, callback>>

FadeStates == {"Muted", "FadingIn", "FadingOut"}

StreamTypeOK ==
  /\ stream \in [Streams ->
       [mem : {"live", "freed"},
        backend : {"Idle", "Ready", "Streaming", "Stopping"},
        driver : {"none", "opened", "prepared", "running", "dead"},
        attached : BOOLEAN,
        fade : [desired : FadeStates, current : FadeStates, position : 0..FadeTotal,
                value : 0..2, start : 0..2, target : {0, 2}, muted : BOOLEAN,
                full : BOOLEAN],
        buffer : Sizes \union {0}, wasFull : BOOLEAN]]
  /\ activeDriver \in Streams \union {0}
  /\ callback \in Streams \union {0}
  /\ device \in [present : BOOLEAN, preferred : Sizes, rateOk : BOOLEAN]
=============================================================================
