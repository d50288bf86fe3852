------------------------- MODULE DailySessionProofs -------------------------
(***************************************************************************)
(* Proofs about DailySession for any number of streams, any buffer sizes   *)
(* and any length of the fade: no callback runs on a stream that was       *)
(* freed, a stream that is shut down gracefully is silent before its       *)
(* driver is stopped, no block is larger than the engine was prepared for, *)
(* and every variable keeps its type.                                      *)
(*                                                                         *)
(* They rest on who has the stream.  The session has it, or the one thread *)
(* that builds it or takes it apart has it, so that a driver object which  *)
(* could call back is always the one s_activeDriver points at.             *)
(***************************************************************************)
EXTENDS DailySession, TLAPS

FadeType ==
  [desired : FadeStates, current : FadeStates, position : 0..FadeTotal, value : 0..2,
   start : 0..2, target : {0, 2}, muted : BOOLEAN, full : BOOLEAN]

StreamType ==
  [mem : {"live", "freed"}, backend : {"Idle", "Ready", "Streaming", "Stopping"},
   driver : {"none", "opened", "prepared", "running", "dead"}, attached : BOOLEAN,
   fade : FadeType, buffer : Sizes \union {0}, wasFull : BOOLEAN]

----------------------------------------------------------------------------
(* The inductive invariant                                                 *)

\* Where the watchdog has no stream of its own, where it builds one, and where a
\* thread takes one apart.
Resting == {"flag", "poll", "pollbuffer", "simulate", "tick", "open", "publish", "exited",
            "reconfigured", "raterestored", "bufferadopted", "lost", "simulatedloss"}
Closed == {"reconfigured", "raterestored", "bufferadopted", "lost", "simulatedloss"}
Opening == {"configure", "wire", "start", "swap"}
Tearing == {"fade", "wait", "stop", "stopped", "detach", "destroy"}
MainResting == {"running", "join", "dispose", "done"}

Types ==
  /\ StreamTypeOK
  /\ session \in Streams \union {0}
  /\ taken \in [Threads -> Streams \union {0}]
  /\ pc \in [Threads -> Resting \union Opening \union Tearing \union MainResting]
  /\ after \in [Threads -> {"none", "flag", "dispose", "done"} \union Closed]

\* There is one stream at most, and the session or one thread has it.
WatchdogRole ==
  /\ pc[Watchdog] \in Resting \union Opening \union Tearing
  /\ pc[Watchdog] \in Resting => taken[Watchdog] = 0
  /\ pc[Watchdog] \in Opening \union Tearing => taken[Watchdog] # 0 /\ session = 0
  /\ pc[Watchdog] \in Closed \union {"open"} => session = 0
  /\ pc[Watchdog] \in Tearing => after[Watchdog] \in Closed \union {"flag"}
  /\ recovery = "Lost" /\ pc[Watchdog] # "publish" => session = 0

MainRole ==
  /\ pc[Main] \in MainResting \union Tearing
  /\ pc[Main] \in MainResting => taken[Main] = 0
  /\ pc[Main] \in Tearing => taken[Main] # 0 /\ session = 0
  /\ pc[Main] \in Tearing => after[Main] \in {"dispose", "done"}
  /\ pc[Main] \in {"dispose", "done"} => session = 0
  /\ pc[Main] \notin {"running", "join"} => pc[Watchdog] = "exited"

Roles == WatchdogRole /\ MainRole

Held == {session, taken[Watchdog], taken[Main]} \ {0}

\* Who has a stream has it live, and only such a stream is known to the driver.
Lives ==
  /\ \A s \in Streams : stream[s].mem = "live" <=> s \in Held
  /\ \A s \in Streams : stream[s].mem = "freed" => stream[s].driver = "none"
  /\ \A s \in Streams : stream[s].driver \in {"prepared", "running"} => activeDriver = s
  /\ activeDriver # 0 => activeDriver \in Held
  /\ callback # 0 => callback \in Held

\* A stream that is being built is not called back yet, one that is taken apart no
\* more.
Silent(s) == ~Calls(s) /\ callback # s

Stopped ==
  /\ pc[Watchdog] \in {"configure", "wire", "start"} =>
       stream[taken[Watchdog]].backend = "Ready" /\ Silent(taken[Watchdog])
  /\ \A t \in Threads : pc[t] \in {"detach", "destroy"} => Silent(taken[t])

\* A fade-out that began at full level is muted only at silence, and stays there.
Ends(f) == f.muted => f.value = 0 /\ f.start = 0 /\ f.target = 0

FadesOut(s) ==
  /\ stream[s].fade.desired = "FadingOut"
  /\ stream[s].wasFull => Ends(stream[s].fade)

Fades ==
  /\ \A s \in Streams : ~(stream[s].fade.full /\ stream[s].fade.muted)
  /\ \A t \in Threads :
       /\ pc[t] \in {"wait", "stop"} => FadesOut(taken[t])
       /\ pc[t] = "stop" /\ Graceful(t) /\ Calls(taken[t]) /\ stream[taken[t]].wasFull =>
            stream[taken[t]].fade.muted

Inv == Types /\ Roles /\ Lives /\ Stopped /\ Fades

----------------------------------------------------------------------------
(* The envelope of a block                                                 *)

LEMMA TypedStreams == StreamTypeOK =>
  /\ stream \in [Streams -> StreamType]
  /\ activeDriver \in Streams \union {0} /\ callback \in Streams \union {0}
  /\ device \in [present : BOOLEAN, preferred : Sizes, rateOk : BOOLEAN]
BY DEF StreamTypeOK, StreamType, FadeType

LEMMA StreamsTyped ==
  /\ stream \in [Streams -> StreamType]
  /\ activeDriver \in Streams \union {0} /\ callback \in Streams \union {0}
  /\ device \in [present : BOOLEAN, preferred : Sizes, rateOk : BOOLEAN]
  => StreamTypeOK
BY DEF StreamTypeOK, StreamType, FadeType

LEMMA ConfiguredType == FadeConfigured \in FadeType /\ Unused \in StreamType
BY StreamAssumption DEF FadeConfigured, FadeType, FadeStates, Unused, StreamType

LEMMA RearmFacts ==
  ASSUME NEW f \in FadeType
  PROVE  /\ Rearm(f) \in FadeType
         /\ Rearm(f).full = f.full /\ Rearm(f).muted = f.muted
         /\ Rearm(f).desired = f.desired
         /\ f.desired = "FadingOut" /\ Ends(f) => Ends(Rearm(f))
<1>1. Rearm(f) \in FadeType
  <2> DEFINE target == IF f.desired = "FadingIn" THEN 2 ELSE 0
  <2>1. target \in {0, 2} /\ 0 \in 0..FadeTotal
    BY StreamAssumption
  <2>2. Rearm(f) = [f EXCEPT !.current = f.desired, !.position = 0, !.start = f.value,
                             !.target = target]
    BY DEF Rearm
  <2> HIDE DEF target
  <2> QED BY <2>1, <2>2 DEF FadeType
<1>2. /\ Rearm(f).full = f.full /\ Rearm(f).muted = f.muted /\ Rearm(f).desired = f.desired
      /\ Rearm(f).value = f.value /\ Rearm(f).start = f.value
      /\ Rearm(f).target = IF f.desired = "FadingIn" THEN 2 ELSE 0
  BY DEF Rearm, FadeType
<1> QED BY <1>1, <1>2 DEF Ends

\* What is left of a fade is stepped through, and then it settles.
LEMMA StepFacts ==
  ASSUME NEW f \in FadeType
  PROVE  /\ Step(f) \in FadeType
         /\ ~(f.full /\ f.muted) => ~(Step(f).full /\ Step(f).muted)
         /\ Step(f).desired = f.desired
         /\ Ends(f) => Ends(Step(f))
         /\ Ends(f) /\ f.muted => Step(f).muted
<1>1. CASE f.position >= FadeTotal
  <2>1. Step(f) = Settle(f)
    BY <1>1 DEF Step
  <2>2. Settle(f) \in FadeType
    <3> DEFINE current == IF f.target = 0 THEN "Muted" ELSE "FadingIn"
               muted == f.target = 0
               full == f.target # 0
    <3>1. current \in FadeStates /\ muted \in BOOLEAN /\ full \in BOOLEAN
      BY DEF FadeStates
    <3>2. Settle(f) = [f EXCEPT !.value = f.target, !.start = f.target, !.muted = muted,
                                !.full = full, !.current = current]
      BY DEF Settle
    <3>3. f.target \in 0..2
      BY DEF FadeType
    <3> HIDE DEF current, muted, full
    <3> QED BY <3>1, <3>2, <3>3 DEF FadeType
  <2>3. /\ Settle(f).value = f.target /\ Settle(f).start = f.target
        /\ Settle(f).target = f.target /\ Settle(f).desired = f.desired
        /\ Settle(f).muted = (f.target = 0) /\ Settle(f).full = (f.target # 0)
    BY DEF Settle, FadeType
  <2> QED BY <2>1, <2>2, <2>3 DEF Ends
<1>2. CASE ~(f.position >= FadeTotal)
  <2> DEFINE value == IF f.position = 0 \/ f.start = f.target THEN f.start ELSE 1
  <2>1. Step(f) = [f EXCEPT !.position = f.position + 1, !.value = value]
    BY <1>2 DEF Step, FadeType
  <2>2. value \in 0..2 /\ f.position + 1 \in 0..FadeTotal
    BY <1>2, StreamAssumption DEF FadeType
  <2>3. Ends(f) /\ f.muted => value = 0
    BY DEF Ends
  <2> HIDE DEF value
  <2>4. Step(f) \in FadeType
    BY <2>1, <2>2 DEF FadeType
  <2>5. /\ Step(f).value = value /\ Step(f).start = f.start /\ Step(f).target = f.target
        /\ Step(f).desired = f.desired /\ Step(f).muted = f.muted /\ Step(f).full = f.full
    BY <2>1 DEF FadeType
  <2> QED BY <2>3, <2>4, <2>5 DEF Ends
<1> QED BY <1>1, <1>2

LEMMA FadeNextFacts ==
  ASSUME NEW f \in FadeType
  PROVE  /\ FadeNext(f) \in FadeType
         /\ ~(f.full /\ f.muted) => ~(FadeNext(f).full /\ FadeNext(f).muted)
         /\ FadeNext(f).desired = f.desired
         /\ f.desired = "FadingOut" /\ Ends(f) => Ends(FadeNext(f))
         /\ f.desired = "FadingOut" /\ Ends(f) /\ f.muted => FadeNext(f).muted
BY RearmFacts, StepFacts DEF FadeNext

----------------------------------------------------------------------------
(* What each operation does to the stream it works on                      *)

LEMMA OneChanges ==
  ASSUME stream \in [Streams -> StreamType], NEW s \in Streams, NEW r \in StreamType,
         stream' = [stream EXCEPT ![s] = r]
  PROVE  /\ stream' \in [Streams -> StreamType]
         /\ stream'[s] = r /\ \A z \in Streams \ {s} : stream'[z] = stream[z]
OBVIOUS

\* Everybody else's stream is left alone.
Others(s) == \A z \in Streams \ {s} : stream'[z] = stream[z]

\* The stream lives on, and its driver object is the same.
SameDriver(s) ==
  /\ stream'[s].mem = stream[s].mem
  /\ stream'[s].driver = stream[s].driver /\ stream'[s].backend = stream[s].backend

SameFade(s) ==
  stream'[s].fade = stream[s].fade /\ stream'[s].wasFull = stream[s].wasFull

LEMMA RequestFacts ==
  ASSUME StreamTypeOK, NEW s \in Streams, RequestFadeOut(s)
  PROVE  /\ StreamTypeOK' /\ Others(s) /\ SameDriver(s)
         /\ stream'[s].wasFull = stream[s].fade.full
         /\ stream'[s].fade = [stream[s].fade EXCEPT !.desired = "FadingOut"]
<1> DEFINE fade == [stream[s].fade EXCEPT !.desired = "FadingOut"]
           r == [stream[s] EXCEPT !.fade = fade, !.wasFull = stream[s].fade.full]
<1>1. stream[s] \in StreamType /\ stream[s].fade \in FadeType
  BY TypedStreams DEF StreamType
<1>2. fade \in FadeType
  BY <1>1 DEF FadeType, FadeStates
<1>3. stream' = [stream EXCEPT ![s] = r]
  BY <1>1, TypedStreams DEF RequestFadeOut, StreamType
<1> HIDE DEF fade
<1>4. r \in StreamType
  BY <1>1, <1>2 DEF StreamType, FadeType
<1>5. r.mem = stream[s].mem /\ r.driver = stream[s].driver /\ r.backend = stream[s].backend
      /\ r.wasFull = stream[s].fade.full /\ r.fade = fade
  BY <1>1 DEF StreamType
<1> HIDE DEF r
<1>6. /\ stream' \in [Streams -> StreamType]
      /\ stream'[s] = r /\ \A z \in Streams \ {s} : stream'[z] = stream[z]
  BY <1>3, <1>4, OneChanges, TypedStreams
<1>7. StreamTypeOK'
  BY <1>6, TypedStreams DEF RequestFadeOut, StreamTypeOK, StreamType, FadeType
<1> QED BY <1>5, <1>6, <1>7 DEF Others, SameDriver, fade

LEMMA StopBeginsFacts ==
  ASSUME StreamTypeOK, NEW s \in Streams, StopBegins(s)
  PROVE  /\ StreamTypeOK' /\ Others(s) /\ SameFade(s)
         /\ stream'[s].mem = stream[s].mem /\ stream'[s].driver = stream[s].driver
         /\ stream'[s].backend # "Streaming"
<1> DEFINE backend == IF stream[s].backend = "Streaming" THEN "Stopping" ELSE "Ready"
           r == [stream[s] EXCEPT !.backend = backend]
<1>1. stream[s] \in StreamType
  BY TypedStreams
<1>2. stream' = [stream EXCEPT ![s] = r]
  BY <1>1, TypedStreams DEF StopBegins, StreamType
<1>3. backend \in {"Stopping", "Ready"}
  OBVIOUS
<1> HIDE DEF backend
<1>4. r \in StreamType
  BY <1>1, <1>3 DEF StreamType
<1>5. r.mem = stream[s].mem /\ r.driver = stream[s].driver /\ r.backend = backend
      /\ r.wasFull = stream[s].wasFull /\ r.fade = stream[s].fade
  BY <1>1 DEF StreamType
<1> HIDE DEF r
<1>6. /\ stream' \in [Streams -> StreamType]
      /\ stream'[s] = r /\ \A z \in Streams \ {s} : stream'[z] = stream[z]
  BY <1>2, <1>4, OneChanges, TypedStreams
<1>7. StreamTypeOK'
  BY <1>6, TypedStreams DEF StopBegins, StreamTypeOK, StreamType, FadeType
<1> QED BY <1>3, <1>5, <1>6, <1>7 DEF Others, SameFade

LEMMA StopEndsFacts ==
  ASSUME StreamTypeOK, NEW s \in Streams, StopEnds(s)
  PROVE  /\ StreamTypeOK' /\ Others(s) /\ SameFade(s)
         /\ stream'[s].mem = stream[s].mem /\ stream'[s].backend = "Ready"
         /\ stream'[s].driver = IF stream[s].driver = "running" THEN "prepared"
                                ELSE stream[s].driver
<1> DEFINE driver == IF stream[s].driver = "running" THEN "prepared" ELSE stream[s].driver
           r == [stream[s] EXCEPT !.backend = "Ready", !.driver = driver]
<1>1. stream[s] \in StreamType
  BY TypedStreams
<1>2. stream' = [stream EXCEPT ![s] = r]
  BY <1>1, TypedStreams DEF StopEnds, StreamType
<1>3. driver \in {"none", "opened", "prepared", "running", "dead"}
  BY <1>1 DEF StreamType
<1> HIDE DEF driver
<1>4. r \in StreamType
  BY <1>1, <1>3 DEF StreamType
<1>5. r.mem = stream[s].mem /\ r.driver = driver /\ r.backend = "Ready"
      /\ r.wasFull = stream[s].wasFull /\ r.fade = stream[s].fade
  BY <1>1 DEF StreamType
<1> HIDE DEF r
<1>6. /\ stream' \in [Streams -> StreamType]
      /\ stream'[s] = r /\ \A z \in Streams \ {s} : stream'[z] = stream[z]
  BY <1>2, <1>4, OneChanges, TypedStreams
<1>7. StreamTypeOK'
  BY <1>6, TypedStreams DEF StopEnds, StreamTypeOK, StreamType, FadeType
<1> QED BY <1>5, <1>6, <1>7 DEF Others, SameFade, driver

LEMMA DetachFacts ==
  ASSUME StreamTypeOK, NEW s \in Streams, Detach(s)
  PROVE  StreamTypeOK' /\ Others(s) /\ SameDriver(s) /\ SameFade(s)
<1> DEFINE r == [stream[s] EXCEPT !.attached = FALSE]
<1>1. stream[s] \in StreamType
  BY TypedStreams
<1>2. stream' = [stream EXCEPT ![s] = r]
  BY <1>1, TypedStreams DEF Detach, StreamType
<1>3. r \in StreamType
  BY <1>1 DEF StreamType
<1>4. r.mem = stream[s].mem /\ r.driver = stream[s].driver /\ r.backend = stream[s].backend
      /\ r.wasFull = stream[s].wasFull /\ r.fade = stream[s].fade
  BY <1>1 DEF StreamType
<1> HIDE DEF r
<1>5. /\ stream' \in [Streams -> StreamType]
      /\ stream'[s] = r /\ \A z \in Streams \ {s} : stream'[z] = stream[z]
  BY <1>2, <1>3, OneChanges, TypedStreams
<1>6. StreamTypeOK'
  BY <1>5, TypedStreams DEF Detach, StreamTypeOK, StreamType, FadeType
<1> QED BY <1>4, <1>5, <1>6 DEF Others, SameDriver, SameFade

LEMMA DestroyFacts ==
  ASSUME StreamTypeOK, NEW s \in Streams, Destroy(s)
  PROVE  StreamTypeOK' /\ Others(s) /\ stream'[s] = Unused
<1>1. stream' = [stream EXCEPT ![s] = Unused]
  BY DEF Destroy
<1>2. /\ stream' \in [Streams -> StreamType]
      /\ stream'[s] = Unused /\ \A z \in Streams \ {s} : stream'[z] = stream[z]
  BY <1>1, ConfiguredType, OneChanges, TypedStreams
<1>3. StreamTypeOK'
  BY <1>2, TypedStreams DEF Destroy, StreamTypeOK, StreamType, FadeType
<1> QED BY <1>2, <1>3 DEF Others

LEMMA SelectFacts ==
  ASSUME StreamTypeOK, NEW s \in Streams, SelectDevice(s)
  PROVE  /\ StreamTypeOK' /\ Others(s)
         /\ stream'[s].mem = "live" /\ stream'[s].backend = "Ready"
         /\ stream'[s].driver = "opened" /\ stream'[s].fade = FadeConfigured
<1> DEFINE r == [Unused EXCEPT !.mem = "live", !.backend = "Ready", !.driver = "opened"]
<1>1. stream' = [stream EXCEPT ![s] = r]
  BY DEF SelectDevice
<1>2. r \in StreamType
  BY ConfiguredType DEF StreamType
<1>3. r.mem = "live" /\ r.backend = "Ready" /\ r.driver = "opened" /\ r.fade = FadeConfigured
  BY DEF Unused
<1> HIDE DEF r
<1>4. /\ stream' \in [Streams -> StreamType]
      /\ stream'[s] = r /\ \A z \in Streams \ {s} : stream'[z] = stream[z]
  BY <1>1, <1>2, OneChanges, TypedStreams
<1>5. StreamTypeOK'
  BY <1>4, TypedStreams DEF SelectDevice, StreamTypeOK, StreamType, FadeType
<1> QED BY <1>3, <1>4, <1>5 DEF Others

LEMMA ConfigureFacts ==
  ASSUME StreamTypeOK, NEW s \in Streams, NEW size \in Sizes, Configure(s, size)
  PROVE  /\ StreamTypeOK' /\ Others(s) /\ SameFade(s)
         /\ stream'[s].mem = stream[s].mem /\ stream'[s].backend = stream[s].backend
         /\ stream'[s].driver = "prepared"
<1> DEFINE r == [stream[s] EXCEPT !.driver = "prepared", !.buffer = size]
<1>1. stream[s] \in StreamType
  BY TypedStreams
<1>2. stream' = [stream EXCEPT ![s] = r]
  BY <1>1, TypedStreams DEF Configure, StreamType
<1>3. r \in StreamType
  BY <1>1 DEF StreamType
<1>4. r.mem = stream[s].mem /\ r.driver = "prepared" /\ r.backend = stream[s].backend
      /\ r.wasFull = stream[s].wasFull /\ r.fade = stream[s].fade
  BY <1>1 DEF StreamType
<1> HIDE DEF r
<1>5. /\ stream' \in [Streams -> StreamType]
      /\ stream'[s] = r /\ \A z \in Streams \ {s} : stream'[z] = stream[z]
  BY <1>2, <1>3, OneChanges, TypedStreams
<1>6. device' \in [present : BOOLEAN, preferred : Sizes, rateOk : BOOLEAN]
  BY TypedStreams DEF Configure
<1>7. StreamTypeOK'
  BY <1>5, <1>6, TypedStreams DEF Configure, StreamTypeOK, StreamType, FadeType
<1> QED BY <1>4, <1>5, <1>7 DEF Others, SameFade

LEMMA WireFacts ==
  ASSUME StreamTypeOK, NEW s \in Streams, WireAndAttach(s)
  PROVE  /\ StreamTypeOK' /\ Others(s) /\ SameDriver(s)
         /\ ~stream'[s].fade.full
<1> DEFINE fade == [FadeConfigured EXCEPT !.desired = "FadingIn"]
           r == [stream[s] EXCEPT !.attached = TRUE, !.fade = fade]
<1>1. stream[s] \in StreamType
  BY TypedStreams
<1>2. fade \in FadeType /\ ~fade.full
  BY ConfiguredType DEF FadeType, FadeStates, FadeConfigured
<1>3. stream' = [stream EXCEPT ![s] = r]
  BY <1>1, TypedStreams DEF WireAndAttach, StreamType
<1> HIDE DEF fade
<1>4. r \in StreamType
  BY <1>1, <1>2 DEF StreamType
<1>5. r.mem = stream[s].mem /\ r.driver = stream[s].driver /\ r.backend = stream[s].backend
      /\ r.fade = fade
  BY <1>1 DEF StreamType
<1> HIDE DEF r
<1>6. /\ stream' \in [Streams -> StreamType]
      /\ stream'[s] = r /\ \A z \in Streams \ {s} : stream'[z] = stream[z]
  BY <1>3, <1>4, OneChanges, TypedStreams
<1>7. StreamTypeOK'
  BY <1>6, TypedStreams DEF WireAndAttach, StreamTypeOK, StreamType, FadeType
<1> QED BY <1>2, <1>5, <1>6, <1>7 DEF Others, SameDriver

LEMMA StartFacts ==
  ASSUME StreamTypeOK, NEW s \in Streams, Start(s)
  PROVE  /\ StreamTypeOK' /\ Others(s) /\ SameFade(s)
         /\ stream'[s].mem = stream[s].mem /\ stream[s].driver = "prepared"
<1> DEFINE r == [stream[s] EXCEPT !.backend = "Streaming", !.driver = "running"]
<1>1. stream[s] \in StreamType
  BY TypedStreams
<1>2. stream' = [stream EXCEPT ![s] = r]
  BY <1>1, TypedStreams DEF Start, StreamType
<1>3. r \in StreamType
  BY <1>1 DEF StreamType
<1>4. r.mem = stream[s].mem /\ r.wasFull = stream[s].wasFull /\ r.fade = stream[s].fade
  BY <1>1 DEF StreamType
<1> HIDE DEF r
<1>5. /\ stream' \in [Streams -> StreamType]
      /\ stream'[s] = r /\ \A z \in Streams \ {s} : stream'[z] = stream[z]
  BY <1>2, <1>3, OneChanges, TypedStreams
<1>6. StreamTypeOK'
  BY <1>5, TypedStreams DEF Start, StreamTypeOK, StreamType, FadeType
<1> QED BY <1>4, <1>5, <1>6 DEF Others, SameFade, Start

LEMMA CallbackEndsFacts ==
  ASSUME StreamTypeOK, CallbackEnds
  PROVE  /\ StreamTypeOK' /\ callback \in Streams
         /\ Others(callback) /\ SameDriver(callback)
         /\ stream'[callback].wasFull = stream[callback].wasFull
         /\ stream'[callback].fade \in {stream[callback].fade,
                                        FadeNext(stream[callback].fade)}
<1> DEFINE s == callback
           r == [stream[s] EXCEPT !.fade = FadeNext(stream[s].fade)]
<1>1. s \in Streams /\ stream[s] \in StreamType /\ stream[s].fade \in FadeType
  BY TypedStreams DEF CallbackEnds, StreamType
<1>2. CASE stream[s].attached
  <2>1. stream' = [stream EXCEPT ![s] = r]
    BY <1>1, <1>2, TypedStreams DEF CallbackEnds, StreamType
  <2>2. r \in StreamType
    BY <1>1, FadeNextFacts DEF StreamType
  <2>3. r.mem = stream[s].mem /\ r.driver = stream[s].driver
        /\ r.backend = stream[s].backend /\ r.wasFull = stream[s].wasFull
        /\ r.fade = FadeNext(stream[s].fade)
    BY <1>1 DEF StreamType
  <2> HIDE DEF r
  <2>4. /\ stream' \in [Streams -> StreamType]
        /\ stream'[s] = r /\ \A z \in Streams \ {s} : stream'[z] = stream[z]
    BY <1>1, <2>1, <2>2, OneChanges, TypedStreams
  <2>5. StreamTypeOK'
    BY <2>4, TypedStreams DEF CallbackEnds, StreamTypeOK, StreamType, FadeType
  <2> QED BY <1>1, <2>3, <2>4, <2>5 DEF Others, SameDriver
<1>3. CASE ~stream[s].attached
  BY <1>1, <1>3 DEF CallbackEnds, StreamTypeOK, Others, SameDriver
<1> QED BY <1>2, <1>3

\* The driver may have died; nothing else is different.
MayDie(s) ==
  /\ stream'[s].mem = stream[s].mem /\ stream'[s].backend = stream[s].backend
  /\ SameFade(s)
  /\ \/ stream'[s].driver = stream[s].driver
     \/ stream'[s].driver = "dead" /\ stream[s].driver # "none"

LEMMA DeadFacts ==
  ASSUME stream \in [Streams -> StreamType], NEW s \in Streams
  PROVE  /\ Dead(s) \in StreamType
         /\ Dead(s).mem = stream[s].mem /\ Dead(s).backend = stream[s].backend
         /\ Dead(s).fade = stream[s].fade /\ Dead(s).wasFull = stream[s].wasFull
         /\ \/ Dead(s).driver = stream[s].driver
            \/ Dead(s).driver = "dead" /\ stream[s].driver # "none"
<1>1. stream[s] \in StreamType
  OBVIOUS
<1>2. CASE stream[s].driver = "none"
  BY <1>1, <1>2 DEF Dead
<1>3. CASE stream[s].driver # "none"
  <2>1. Dead(s) = [stream[s] EXCEPT !.driver = "dead"]
    BY <1>3 DEF Dead
  <2> QED BY <1>1, <1>3, <2>1 DEF StreamType
<1> QED BY <1>2, <1>3

LEMMA HappensFacts ==
  ASSUME StreamTypeOK, DeviceLost \/ PanelBuffer \/ PanelRate
  PROVE  /\ StreamTypeOK' /\ \A s \in Streams : MayDie(s)
         /\ UNCHANGED <<activeDriver, callback>>
<1>1. stream \in [Streams -> StreamType]
  BY TypedStreams
<1>2. stream' \in {stream, [s \in Streams |-> Dead(s)],
                   [s \in Streams |-> IF Calls(s) THEN Dead(s) ELSE stream[s]]}
  BY DEF DeviceLost, PanelBuffer, PanelRate
<1>3. \A s \in Streams : stream'[s] \in {stream[s], Dead(s)}
  BY <1>2
<1>4. stream' \in [Streams -> StreamType]
  BY <1>1, <1>2, DeadFacts
<1>5. \A s \in Streams : MayDie(s)
  BY <1>1, <1>3, DeadFacts DEF MayDie, SameFade
<1>6. device' \in [present : BOOLEAN, preferred : Sizes, rateOk : BOOLEAN]
  BY TypedStreams DEF DeviceLost, PanelBuffer, PanelRate
<1>7. UNCHANGED <<activeDriver, callback>>
  BY DEF DeviceLost, PanelBuffer, PanelRate
<1>8. StreamTypeOK'
  BY <1>4, <1>6, <1>7, TypedStreams DEF StreamTypeOK, StreamType, FadeType
<1> QED BY <1>5, <1>7, <1>8

----------------------------------------------------------------------------
(* The initial state                                                       *)

LEMMA InitInv == Init => Inv
<1> SUFFICES ASSUME Init PROVE Inv
  OBVIOUS
<1>1. PICK s \in Streams, size \in Sizes :
        /\ FirstUsable(size)
        /\ stream = [z \in Streams |->
             IF z # s THEN Unused
             ELSE [Unused EXCEPT !.mem = "live", !.backend = "Streaming",
                                 !.driver = "running", !.attached = TRUE, !.buffer = size,
                                 !.fade = [FadeConfigured EXCEPT !.desired = "FadingIn"]]]
        /\ activeDriver = s /\ session = s
        /\ published = size /\ first = size
        /\ device = [present |-> TRUE, preferred |-> size, rateOk |-> TRUE]
  BY DEF Init
<1> DEFINE fade == [FadeConfigured EXCEPT !.desired = "FadingIn"]
           r == [Unused EXCEPT !.mem = "live", !.backend = "Streaming",
                               !.driver = "running", !.attached = TRUE, !.buffer = size,
                               !.fade = fade]
<1>2. fade \in FadeType /\ ~fade.full
  BY ConfiguredType DEF FadeType, FadeStates, FadeConfigured
<1>3. stream = [z \in Streams |-> IF z # s THEN Unused ELSE r]
  BY <1>1
<1> HIDE DEF fade
<1>4. r \in StreamType
  BY <1>2, ConfiguredType DEF StreamType
<1>5. r.mem = "live" /\ r.driver = "running" /\ r.fade = fade
  BY DEF Unused
<1> HIDE DEF r
<1>6. Unused.mem = "freed" /\ Unused.driver = "none" /\ ~Unused.fade.full
  BY DEF Unused, FadeConfigured
<1>7. /\ stream \in [Streams -> StreamType] /\ stream[s] = r
      /\ \A z \in Streams \ {s} : stream[z] = Unused
  BY <1>3, <1>4, ConfiguredType
<1>8. s # 0
  BY StreamAssumption
<1>9. Types
  <2>1. device \in [present : BOOLEAN, preferred : Sizes, rateOk : BOOLEAN]
    BY <1>1
  <2>2. StreamTypeOK
    BY <1>1, <1>7, <2>1, StreamsTyped DEF Init
  <2> QED BY <1>1, <2>2 DEF Init, Types, Threads, Watchdog, Main, Resting, MainResting
<1>10. /\ pc[Watchdog] = "flag" /\ pc[Main] = "running"
       /\ taken[Watchdog] = 0 /\ taken[Main] = 0
  BY DEF Init, Threads, Watchdog, Main
<1>11. Roles
  BY <1>10 DEF Init, Roles, WatchdogRole, MainRole, Resting, Opening, Tearing, Closed,
                 MainResting
<1>12. Held = {s}
  BY <1>1, <1>8, <1>10 DEF Held
<1>13. Lives
  BY <1>1, <1>5, <1>6, <1>7, <1>12 DEF Lives, Init
<1>14. Stopped /\ Fades
  BY <1>2, <1>5, <1>6, <1>7, <1>10 DEF Stopped, Fades, Threads
<1> QED BY <1>9, <1>11, <1>13, <1>14 DEF Inv

----------------------------------------------------------------------------
(* Steps that leave the streams as they are                                *)

\* What the parts of the invariant about streams read of a thread.
LEMMA Placed ==
  ASSUME Types, NEW t \in Threads, NEW place, GoTo(t, place),
         place \in Resting \union Opening \union Tearing \union MainResting
  PROVE  /\ pc' \in [Threads -> Resting \union Opening \union Tearing \union MainResting]
         /\ pc'[t] = place /\ \A u \in Threads \ {t} : pc'[u] = pc[u]
BY DEF Types, GoTo

LEMMA SameStreams ==
  ASSUME Types, UNCHANGED streamVars
  PROVE  StreamTypeOK'
BY DEF Types, streamVars, StreamTypeOK

\* The watchdog goes from one place of its loop to another.
LEMMA WatchdogRests ==
  ASSUME Inv, UNCHANGED <<streamVars, session, taken, after>>,
         NEW place \in Resting, GoTo(Watchdog, place),
         pc[Watchdog] \in Resting \ {"exited"},
         place \in Closed \union {"open"} => session = 0,
         place # "publish" /\ recovery' = "Lost" => session = 0
  PROVE  Inv'
<1>1. /\ pc' \in [Threads -> Resting \union Opening \union Tearing \union MainResting]
      /\ pc'[Watchdog] = place /\ pc'[Main] = pc[Main]
  BY Placed DEF Inv, Threads, Watchdog, Main
<1>2. Types'
  BY <1>1, SameStreams DEF Inv, Types
<1>3. Roles'
  BY <1>1 DEF Inv, Roles, WatchdogRole, MainRole, Resting, Opening, Tearing, Closed
<1>4. Lives'
  BY DEF Inv, Lives, Held, streamVars
<1>5. Stopped' /\ Fades'
  <2>1. \A t \in Threads : pc'[t] \in Tearing => pc'[t] = pc[t]
    BY <1>1 DEF Threads, Resting, Tearing
  <2>2. pc'[Watchdog] \notin Opening
    BY <1>1 DEF Resting, Opening
  <2> QED BY <2>1, <2>2 DEF Inv, Stopped, Fades, Silent, Calls, FadesOut, Graceful,
                            Tearing, Opening, streamVars
<1> QED BY <1>2, <1>3, <1>4, <1>5 DEF Inv

\* Whoever builds a stream or takes one apart has the only one there is.
LEMMA Alone ==
  ASSUME Types, Roles, NEW t \in Threads, pc[t] \in Tearing \union Opening
  PROVE  /\ taken[t] \in Streams /\ Held = {taken[t]} /\ session = 0
         /\ \A u \in Threads \ {t} :
              taken[u] = 0 /\ pc[u] \notin Tearing \union Opening
<1>1. taken[t] \in Streams \union {0}
  BY DEF Types
<1>2. CASE t = Watchdog
  <2>1. pc[Main] \in {"running", "join"}
    BY <1>2 DEF Roles, WatchdogRole, MainRole, Tearing, Opening, MainResting
  <2>2. taken[Main] = 0 /\ taken[t] # 0 /\ session = 0
    BY <1>2, <2>1 DEF Roles, WatchdogRole, MainRole, MainResting
  <2> QED BY <1>1, <1>2, <2>1, <2>2 DEF Held, Threads, Tearing, Opening
<1>3. CASE t = Main
  <2>1. pc[Main] \in Tearing
    BY <1>3 DEF Roles, WatchdogRole, MainRole, MainResting, Opening, Tearing
  <2>2. pc[Watchdog] = "exited"
    BY <2>1 DEF Roles, WatchdogRole, MainRole, Tearing
  <2>3. taken[Watchdog] = 0 /\ taken[t] # 0 /\ session = 0
    BY <1>3, <2>1, <2>2 DEF Roles, WatchdogRole, MainRole, Resting
  <2> QED BY <1>1, <1>3, <2>2, <2>3 DEF Held, Threads, Tearing, Opening
<1> QED BY <1>2, <1>3 DEF Threads

\* The session's stream changes hands, if there is one.
LEMMA Takes ==
  ASSUME Inv, UNCHANGED streamVars, recovery' = recovery,
         NEW t \in Threads, NEW place \in {"fade", "detach"}, NEW then,
         TakeSession(t, place, then),
         place = "detach" /\ session # 0 => Silent(session),
         \/ /\ t = Watchdog /\ then \in Closed
            /\ pc[t] \in {"flag", "poll", "pollbuffer", "simulate", "tick"}
         \/ /\ t = Main /\ then \in {"dispose", "done"}
            /\ pc[t] \in {"join", "dispose"} /\ pc[Watchdog] = "exited"
  PROVE  Inv'
<1> DEFINE to == IF session = 0 THEN then ELSE place
<1>1. to \in {place, then} /\ (to = place <=> session # 0)
  BY DEF Closed
<1>2. taken' = [taken EXCEPT ![t] = session] /\ after' = [after EXCEPT ![t] = then]
      /\ session' = 0 /\ GoTo(t, to)
  BY DEF TakeSession
<1> HIDE DEF to
<1>3. taken[t] = 0 /\ Watchdog # Main
  BY DEF Inv, Roles, WatchdogRole, MainRole, Resting, MainResting, Watchdog, Main
<1>4. pc[Main] \in {"running", "join", "dispose"} /\ taken[Main] = 0 /\ taken[Watchdog] = 0
      /\ pc[Watchdog] \in Resting /\ pc[t] \notin Tearing
  BY <1>3 DEF Inv, Roles, WatchdogRole, MainRole, Resting, MainResting, Tearing, Opening
<1>5. /\ pc' \in [Threads -> Resting \union Opening \union Tearing \union MainResting]
      /\ pc'[t] = to /\ \A u \in Threads \ {t} : pc'[u] = pc[u]
  <2>1. to \in Resting \union Opening \union Tearing \union MainResting
    BY <1>1 DEF Closed, Resting, Tearing, MainResting
  <2> QED BY <1>2, <2>1, Placed DEF Inv
<1>6. /\ taken' \in [Threads -> Streams \union {0}]
      /\ taken'[t] = session /\ \A u \in Threads \ {t} : taken'[u] = taken[u]
  BY <1>2 DEF Inv, Types
<1>7. /\ after' \in [Threads -> {"none", "flag", "dispose", "done"} \union Closed]
      /\ after'[t] = then /\ \A u \in Threads \ {t} : after'[u] = after[u]
  BY <1>2 DEF Inv, Types
<1>8. Types'
  BY <1>2, <1>5, <1>6, <1>7, SameStreams DEF Inv, Types
<1>9. Held' = Held
  BY <1>2, <1>3, <1>4, <1>6 DEF Held, Threads
<1>10. Lives'
  BY <1>9 DEF Inv, Lives, streamVars
<1>11. Roles'
  <2>1. CASE t = Watchdog
    <3>1. pc'[Watchdog] = to /\ taken'[Watchdog] = session /\ after'[Watchdog] = then
          /\ pc'[Main] = pc[Main] /\ taken'[Main] = 0 /\ after'[Main] = after[Main]
      BY <1>3, <1>4, <1>5, <1>6, <1>7, <2>1 DEF Threads
    <3>2. pc[Main] \in {"running", "join"} /\ then \in Closed
      BY <1>3, <1>4, <2>1 DEF Inv, Roles, WatchdogRole, MainRole
    <3>3. CASE session = 0
      <4>1. to \in Closed
        BY <1>1, <3>2, <3>3 DEF Closed
      <4>2. to \in Resting /\ to \notin Opening \union Tearing
        BY <4>1 DEF Closed, Resting, Opening, Tearing
      <4> QED BY <1>2, <3>1, <3>2, <3>3, <4>1, <4>2
              DEF Roles, WatchdogRole, MainRole, MainResting, Tearing
    <3>4. CASE session # 0
      <4>1. to \in {"fade", "detach"}
        BY <1>1, <3>4
      <4>2. to \in Tearing /\ to \notin Resting \union Closed \union {"open", "publish"}
        BY <4>1 DEF Closed, Resting, Opening, Tearing
      <4> QED BY <1>2, <3>1, <3>2, <3>4, <4>1, <4>2
              DEF Roles, WatchdogRole, MainRole, MainResting, Tearing
    <3> QED BY <3>3, <3>4
  <2>2. CASE t = Main
    <3>1. pc'[Main] = to /\ taken'[Main] = session /\ after'[Main] = then
          /\ pc'[Watchdog] = "exited" /\ taken'[Watchdog] = 0
          /\ then \in {"dispose", "done"}
      BY <1>3, <1>4, <1>5, <1>6, <1>7, <2>2 DEF Threads
    <3>2. WatchdogRole'
      BY <1>2, <3>1 DEF WatchdogRole, Resting, Closed, Opening, Tearing
    <3>3. CASE session = 0
      <4>1. to \in MainResting /\ to \notin Tearing
        BY <1>1, <3>1, <3>3 DEF MainResting, Tearing
      <4>2. MainRole'
        BY <1>2, <3>1, <3>3, <4>1 DEF MainRole
      <4> QED BY <3>2, <4>2 DEF Roles
    <3>4. CASE session # 0
      <4>1. to \in Tearing /\ to \notin MainResting /\ to \notin {"dispose", "done"}
        BY <1>1, <3>4 DEF MainResting, Tearing
      <4>2. MainRole'
        BY <1>2, <3>1, <3>4, <4>1 DEF MainRole
      <4> QED BY <3>2, <4>2 DEF Roles
    <3> QED BY <3>3, <3>4
  <2> QED BY <2>1, <2>2 DEF Threads
<1>12. \A u \in Threads : pc'[u] \in {"detach", "destroy"} => Silent(taken[u])'
  <2> SUFFICES ASSUME NEW u \in Threads, pc'[u] \in {"detach", "destroy"}
               PROVE  Silent(taken[u])'
    OBVIOUS
  <2>1. CASE u = t
    <3>1. to \in {"detach", "destroy"} /\ then \notin {"detach", "destroy"}
      BY <1>5, <2>1 DEF Closed
    <3>2. Silent(session)
      BY <1>1, <3>1
    <3> QED BY <1>6, <2>1, <3>2 DEF Silent, Calls, streamVars
  <2>2. CASE u # t
    <3>1. pc[u] \in {"detach", "destroy"} /\ taken'[u] = taken[u]
      BY <1>5, <1>6, <2>2
    <3> QED BY <3>1 DEF Inv, Stopped, Silent, Calls, streamVars
  <2> QED BY <2>1, <2>2
<1>13. pc'[Watchdog] \notin Opening
  BY <1>1, <1>3, <1>4, <1>5 DEF Opening, Closed, Threads, Resting
<1>14. Stopped'
  BY <1>12, <1>13 DEF Stopped, Silent, Calls, Opening
<1>15. \A u \in Threads : pc'[u] \notin {"wait", "stop"}
  BY <1>1, <1>3, <1>4, <1>5 DEF Threads, Closed, Resting
<1>16. Fades'
  BY <1>15 DEF Inv, Fades, streamVars
<1> QED BY <1>8, <1>10, <1>11, <1>14, <1>16 DEF Inv

----------------------------------------------------------------------------
(* A stream is taken apart                                                 *)

\* No stream changes hands and no driver object comes to life.
LEMMA LivesOn ==
  ASSUME Types, Lives, Held' = Held, UNCHANGED activeDriver, callback' \in {callback, 0},
         \A s \in Streams :
           /\ stream'[s].mem = stream[s].mem
           /\ stream[s].driver = "none" => stream'[s].driver = "none"
           /\ stream'[s].driver \in {"prepared", "running"} =>
                stream[s].driver \in {"prepared", "running"}
  PROVE  Lives'
BY DEF Lives

\* The thread goes from one place of the teardown to the next.
LEMMA TearsOn ==
  ASSUME Types, Roles, NEW t \in Threads, NEW from \in Tearing, NEW to \in Tearing,
         TearingDown(t, from), GoTo(t, to), UNCHANGED taken
  PROVE  /\ pc' \in [Threads -> Resting \union Opening \union Tearing \union MainResting]
         /\ pc'[t] = to /\ \A u \in Threads \ {t} : pc'[u] = pc[u]
         /\ \A u \in Threads \ {t} : pc'[u] \notin Tearing \union Opening
         /\ pc'[Watchdog] \notin Opening
         /\ taken[t] \in Streams /\ Held = {taken[t]}
         /\ Roles' /\ Held' = Held
         /\ StreamTypeOK' => Types'
<1>1. /\ pc' \in [Threads -> Resting \union Opening \union Tearing \union MainResting]
      /\ pc'[t] = to /\ \A u \in Threads \ {t} : pc'[u] = pc[u]
  BY Placed
<1>2. pc[t] = from /\ UNCHANGED <<session, recovery, after, taken>>
  BY DEF TearingDown, controller
<1>3. /\ taken[t] \in Streams /\ Held = {taken[t]}
      /\ \A u \in Threads \ {t} : pc[u] \notin Tearing \union Opening
  BY <1>2, Alone
<1>4. Held' = Held
  BY <1>2 DEF Held
<1>5. StreamTypeOK' => Types'
  BY <1>1, <1>2 DEF Types
<1>6. to \notin Resting \union Opening \union MainResting /\ from \notin Resting
      /\ "running" \notin Tearing /\ "join" \notin Tearing /\ "exited" \notin Tearing
  BY DEF Tearing, Resting, Opening, MainResting
<1>7. Roles'
  <2>1. CASE t = Watchdog
    <3>1. pc'[Watchdog] = to /\ pc'[Main] = pc[Main]
      BY <1>1, <2>1 DEF Threads, Watchdog, Main
    <3>2. WatchdogRole'
      BY <1>2, <1>6, <2>1, <3>1 DEF Roles, WatchdogRole, Closed, Tearing
    <3>3. pc[Watchdog] # "exited"
      BY <1>2, <1>6, <2>1
    <3>4. MainRole'
      BY <1>2, <3>1, <3>3 DEF Roles, MainRole
    <3> QED BY <3>2, <3>4 DEF Roles
  <2>2. CASE t = Main
    <3>1. pc'[Main] = to /\ pc'[Watchdog] = pc[Watchdog]
      BY <1>1, <2>2 DEF Threads, Watchdog, Main
    <3>2. WatchdogRole'
      BY <1>2, <3>1 DEF Roles, WatchdogRole
    <3>3. MainRole'
      BY <1>2, <1>6, <2>2, <3>1 DEF Roles, MainRole, Tearing
    <3> QED BY <3>2, <3>3 DEF Roles
  <2> QED BY <2>1, <2>2 DEF Threads
<1>8. pc'[Watchdog] \notin Opening
  BY <1>1, <1>3, <1>6 DEF Threads
<1> QED BY <1>1, <1>3, <1>4, <1>5, <1>7, <1>8

LEMMA FadeBeginsInv ==
  ASSUME Inv, NEW t \in Threads, FadeBegins(t)
  PROVE  Inv'
<1> DEFINE s == taken[t]
<1>1. /\ TearingDown(t, "fade") /\ RequestFadeOut(s) /\ GoTo(t, "wait")
      /\ UNCHANGED taken
  BY DEF FadeBegins
<1>2. "fade" \in Tearing /\ "wait" \in Tearing
  BY DEF Tearing
<1>3. /\ pc'[t] = "wait" /\ \A u \in Threads \ {t} : pc'[u] \notin Tearing \union Opening
      /\ pc'[Watchdog] \notin Opening
      /\ s \in Streams /\ Roles' /\ Held' = Held /\ (StreamTypeOK' => Types')
  BY <1>1, <1>2, TearsOn DEF Inv
<1>4. /\ StreamTypeOK' /\ Others(s) /\ SameDriver(s)
      /\ stream'[s].wasFull = stream[s].fade.full
      /\ stream'[s].fade = [stream[s].fade EXCEPT !.desired = "FadingOut"]
  BY <1>1, <1>3, RequestFacts DEF Inv, Types
<1>5. UNCHANGED <<activeDriver, callback>>
  BY <1>1 DEF RequestFadeOut
<1>6. Lives'
  BY <1>3, <1>4, <1>5, LivesOn DEF Inv, Others, SameDriver
<1>7. Stopped'
  BY <1>3 DEF Stopped, Opening, Tearing
<1>8. /\ stream'[s].fade.desired = "FadingOut" /\ stream'[s].fade.muted = stream[s].fade.muted
      /\ stream'[s].fade.full = stream[s].fade.full
  BY <1>3, <1>4, TypedStreams DEF Inv, Types, StreamType, FadeType
<1>9. \A z \in Streams : ~(stream'[z].fade.full /\ stream'[z].fade.muted)
  BY <1>3, <1>4, <1>8 DEF Inv, Fades, Others
<1>10. FadesOut(s)'
  BY <1>1, <1>3, <1>4, <1>8, <1>9 DEF FadesOut, Ends
<1>11. Fades'
  BY <1>1, <1>3, <1>9, <1>10 DEF Fades, Tearing
<1> QED BY <1>3, <1>4, <1>6, <1>7, <1>11 DEF Inv

LEMMA FadeEndsInv ==
  ASSUME Inv, NEW t \in Threads, FadeEnds(t)
  PROVE  Inv'
<1> DEFINE s == taken[t]
<1>1. /\ TearingDown(t, "wait") /\ GoTo(t, "stop") /\ UNCHANGED <<streamVars, taken>>
      /\ stream[s].fade.muted \/ GivesUp(t)
  BY DEF FadeEnds
<1>2. "wait" \in Tearing /\ "stop" \in Tearing
  BY DEF Tearing
<1>3. /\ pc'[t] = "stop" /\ \A u \in Threads \ {t} : pc'[u] \notin Tearing \union Opening
      /\ pc'[Watchdog] \notin Opening
      /\ s \in Streams /\ Roles' /\ Held' = Held /\ (StreamTypeOK' => Types')
  BY <1>1, <1>2, TearsOn DEF Inv
<1>4. StreamTypeOK'
  BY <1>1, SameStreams DEF Inv
<1>5. Lives'
  BY <1>1, <1>3 DEF Inv, Lives, streamVars
<1>6. Stopped'
  BY <1>3 DEF Stopped, Opening, Tearing
<1>7. FadesOut(s)'
  BY <1>1 DEF Inv, Fades, FadesOut, TearingDown, streamVars
<1>8. Graceful(t)' /\ Calls(s)' => stream'[s].fade.muted
  BY <1>1 DEF GivesUp, Graceful, Calls, TearingDown, streamVars
<1>9. Fades'
  BY <1>1, <1>3, <1>7, <1>8 DEF Inv, Fades, Tearing, streamVars
<1> QED BY <1>3, <1>4, <1>5, <1>6, <1>9 DEF Inv

LEMMA StopStreamInv ==
  ASSUME Inv, NEW t \in Threads, StopStream(t)
  PROVE  Inv'
<1> DEFINE s == taken[t]
<1>1. TearingDown(t, "stop") /\ StopBegins(s) /\ GoTo(t, "stopped") /\ UNCHANGED taken
  BY DEF StopStream
<1>2. "stop" \in Tearing /\ "stopped" \in Tearing
  BY DEF Tearing
<1>3. /\ pc'[t] = "stopped"
      /\ \A u \in Threads \ {t} : pc'[u] \notin Tearing \union Opening
      /\ pc'[Watchdog] \notin Opening
      /\ s \in Streams /\ Roles' /\ Held' = Held /\ (StreamTypeOK' => Types')
  BY <1>1, <1>2, TearsOn DEF Inv
<1>4. /\ StreamTypeOK' /\ Others(s) /\ SameFade(s)
      /\ stream'[s].mem = stream[s].mem /\ stream'[s].driver = stream[s].driver
  BY <1>1, <1>3, StopBeginsFacts DEF Inv, Types
<1>5. UNCHANGED <<activeDriver, callback>>
  BY <1>1 DEF StopBegins
<1>6. Lives'
  BY <1>3, <1>4, <1>5, LivesOn DEF Inv, Others
<1>7. Stopped'
  BY <1>3 DEF Stopped, Opening, Tearing
<1>8. Fades'
  BY <1>3, <1>4 DEF Inv, Fades, Others, SameFade, Tearing
<1> QED BY <1>3, <1>4, <1>6, <1>7, <1>8 DEF Inv

LEMMA StreamStoppedInv ==
  ASSUME Inv, NEW t \in Threads, StreamStopped(t)
  PROVE  Inv'
<1> DEFINE s == taken[t]
<1>1. TearingDown(t, "stopped") /\ StopEnds(s) /\ GoTo(t, "detach") /\ UNCHANGED taken
  BY DEF StreamStopped
<1>2. "stopped" \in Tearing /\ "detach" \in Tearing
  BY DEF Tearing
<1>3. /\ pc'[t] = "detach"
      /\ \A u \in Threads \ {t} : pc'[u] \notin Tearing \union Opening
      /\ pc'[Watchdog] \notin Opening
      /\ s \in Streams /\ Roles' /\ Held' = Held /\ (StreamTypeOK' => Types')
  BY <1>1, <1>2, TearsOn DEF Inv
<1>4. /\ StreamTypeOK' /\ Others(s) /\ SameFade(s)
      /\ stream'[s].mem = stream[s].mem /\ stream'[s].backend = "Ready"
      /\ stream'[s].driver = IF stream[s].driver = "running" THEN "prepared"
                             ELSE stream[s].driver
  BY <1>1, <1>3, StopEndsFacts DEF Inv, Types
<1>5. UNCHANGED <<activeDriver, callback>> /\ callback # s
  BY <1>1 DEF StopEnds
<1>6. Lives'
  BY <1>3, <1>4, <1>5, LivesOn DEF Inv, Others
<1>7. Silent(s)'
  BY <1>1, <1>4, <1>5 DEF Silent, Calls
<1>8. Stopped'
  BY <1>1, <1>3, <1>7 DEF Stopped, Opening, Tearing
<1>9. Fades'
  BY <1>3, <1>4 DEF Inv, Fades, Others, SameFade, Tearing
<1> QED BY <1>3, <1>4, <1>6, <1>8, <1>9 DEF Inv

LEMMA DetachStreamInv ==
  ASSUME Inv, NEW t \in Threads, DetachStream(t)
  PROVE  Inv'
<1> DEFINE s == taken[t]
<1>1. TearingDown(t, "detach") /\ Detach(s) /\ GoTo(t, "destroy") /\ UNCHANGED taken
  BY DEF DetachStream
<1>2. "destroy" \in Tearing /\ "detach" \in Tearing
  BY DEF Tearing
<1>3. /\ pc'[t] = "destroy"
      /\ \A u \in Threads \ {t} : pc'[u] \notin Tearing \union Opening
      /\ pc'[Watchdog] \notin Opening
      /\ s \in Streams /\ Roles' /\ Held' = Held /\ (StreamTypeOK' => Types')
  BY <1>1, <1>2, TearsOn DEF Inv
<1>4. StreamTypeOK' /\ Others(s) /\ SameDriver(s) /\ SameFade(s)
  BY <1>1, <1>3, DetachFacts DEF Inv, Types
<1>5. UNCHANGED <<activeDriver, callback>>
  BY <1>1 DEF Detach
<1>6. Lives'
  BY <1>3, <1>4, <1>5, LivesOn DEF Inv, Others, SameDriver
<1>7. Silent(s)'
  BY <1>1, <1>4, <1>5 DEF Inv, Stopped, Silent, Calls, SameDriver, TearingDown
<1>8. Stopped'
  BY <1>1, <1>3, <1>7 DEF Stopped, Opening, Tearing
<1>9. Fades'
  BY <1>3, <1>4 DEF Inv, Fades, Others, SameFade, Tearing
<1> QED BY <1>3, <1>4, <1>6, <1>8, <1>9 DEF Inv

\* The stream is freed, and with it the driver's last way to it.
LEMMA DestroyStreamInv ==
  ASSUME Inv, NEW t \in Threads, DestroyStream(t)
  PROVE  Inv'
<1> DEFINE s == taken[t]
           next == after[t]
<1>1. /\ TearingDown(t, "destroy") /\ Destroy(s) /\ GoTo(t, next)
      /\ taken' = [taken EXCEPT ![t] = 0]
      /\ pc[t] = "destroy" /\ UNCHANGED <<session, recovery, after>>
  BY DEF DestroyStream, TearingDown, controller
<1>2. /\ s \in Streams /\ Held = {s} /\ session = 0
      /\ \A u \in Threads \ {t} : taken[u] = 0 /\ pc[u] \notin Tearing \union Opening
  BY <1>1, Alone DEF Inv, Tearing
<1>3. next \in {"none", "flag", "dispose", "done"} \union Closed
  BY DEF Inv, Types
<1>4. /\ t = Watchdog => next \in Closed \union {"flag"}
      /\ t = Main => next \in {"dispose", "done"}
  BY <1>1 DEF Inv, Roles, WatchdogRole, MainRole, Tearing
<1>5. next \in Resting \union MainResting /\ next \notin Tearing \union Opening
  BY <1>4 DEF Threads, Closed, Resting, MainResting, Tearing, Opening
<1> HIDE DEF next
<1>6. /\ pc' \in [Threads -> Resting \union Opening \union Tearing \union MainResting]
      /\ pc'[t] = next /\ \A u \in Threads \ {t} : pc'[u] = pc[u]
  BY <1>1, <1>5, Placed DEF Inv
<1>7. /\ taken' \in [Threads -> Streams \union {0}]
      /\ taken'[t] = 0 /\ \A u \in Threads \ {t} : taken'[u] = taken[u]
  BY <1>1 DEF Inv, Types
<1>8. StreamTypeOK' /\ Others(s) /\ stream'[s] = Unused
  BY <1>1, <1>2, DestroyFacts DEF Inv, Types
<1>9. Types'
  BY <1>1, <1>6, <1>7, <1>8 DEF Inv, Types
<1>10. Held' = {}
  BY <1>1, <1>2, <1>7 DEF Held, Threads
<1>11. activeDriver' = 0 /\ callback' = callback /\ callback = 0
  <2>1. callback # s
    BY <1>1 DEF Inv, Stopped, Silent
  <2>2. callback = 0
    BY <1>2, <2>1 DEF Inv, Lives
  <2>3. activeDriver = 0 \/ activeDriver = s
    BY <1>2 DEF Inv, Lives
  <2> QED BY <1>1, <2>2, <2>3 DEF Destroy
<1>12. Unused.mem = "freed" /\ Unused.driver = "none" /\ ~Unused.fade.full
  BY DEF Unused, FadeConfigured
<1>13. Lives'
  BY <1>2, <1>8, <1>10, <1>11, <1>12 DEF Inv, Lives, Others
<1>14. Roles'
  <2>1. CASE t = Watchdog
    <3>1. pc'[Watchdog] = next /\ pc'[Main] = pc[Main]
          /\ taken'[Watchdog] = 0 /\ taken'[Main] = taken[Main]
      BY <1>6, <1>7, <2>1 DEF Threads, Watchdog, Main
    <3>2. next \in Resting /\ next \notin Opening \union Tearing
      BY <1>4, <2>1 DEF Closed, Resting, Opening, Tearing
    <3>3. WatchdogRole'
      BY <1>1, <1>2, <3>1, <3>2 DEF WatchdogRole
    <3>4. MainRole'
      BY <1>1, <2>1, <3>1 DEF Inv, Roles, MainRole
    <3> QED BY <3>3, <3>4 DEF Roles
  <2>2. CASE t = Main
    <3>1. pc'[Main] = next /\ pc'[Watchdog] = pc[Watchdog]
          /\ taken'[Main] = 0 /\ taken'[Watchdog] = taken[Watchdog]
      BY <1>6, <1>7, <2>2 DEF Threads, Watchdog, Main
    <3>2. WatchdogRole'
      BY <1>1, <3>1 DEF Inv, Roles, WatchdogRole
    <3>3. next \in MainResting /\ next \notin Tearing
      BY <1>4, <2>2 DEF MainResting, Tearing
    <3>4. pc[Watchdog] = "exited"
      BY <1>1, <2>2 DEF Inv, Roles, MainRole
    <3>5. MainRole'
      BY <1>1, <1>2, <3>1, <3>3, <3>4 DEF MainRole
    <3> QED BY <3>2, <3>5 DEF Roles
  <2> QED BY <2>1, <2>2 DEF Threads
<1>15. \A u \in Threads : pc'[u] \notin Tearing \union Opening
  BY <1>2, <1>5, <1>6
<1>16. Stopped'
  BY <1>15 DEF Stopped, Tearing, Opening, Threads
<1>17. Fades'
  BY <1>2, <1>8, <1>12, <1>15 DEF Inv, Fades, Others, Tearing
<1> QED BY <1>9, <1>13, <1>14, <1>16, <1>17 DEF Inv

----------------------------------------------------------------------------
(* A stream is built                                                       *)

\* The watchdog goes from one place of the rebuild to the next.
LEMMA Builds ==
  ASSUME Types, Roles, NEW from \in Opening, NEW to \in Opening \union {"detach"},
         pc[Watchdog] = from, GoTo(Watchdog, to), UNCHANGED <<session, taken, recovery>>,
         to \in Opening => UNCHANGED after,
         to = "detach" => after' = [after EXCEPT ![Watchdog] = "flag"]
  PROVE  /\ pc'[Watchdog] = to
         /\ pc'[Main] = pc[Main] /\ pc[Main] \notin Tearing
         /\ taken[Watchdog] \in Streams /\ Held = {taken[Watchdog]}
         /\ Roles' /\ Held' = Held
         /\ StreamTypeOK' => Types'
<1>1. to \in Opening \union Tearing /\ to \notin Resting /\ from # "exited" /\ to # "exited"
      /\ to \notin Closed \union {"open"}
  BY DEF Opening, Tearing, Resting, Closed
<1>2. /\ pc' \in [Threads -> Resting \union Opening \union Tearing \union MainResting]
      /\ pc'[Watchdog] = to /\ pc'[Main] = pc[Main]
  BY <1>1, Placed DEF Threads, Watchdog, Main
<1>3. /\ taken[Watchdog] \in Streams /\ Held = {taken[Watchdog]} /\ session = 0
      /\ pc[Main] \notin Tearing
  BY Alone DEF Threads, Watchdog, Main
<1>4. /\ after' \in [Threads -> {"none", "flag", "dispose", "done"} \union Closed]
      /\ to \in Tearing => after'[Watchdog] = "flag"
      /\ pc[Main] \in {"running", "join"}
  <2>1. to \in Opening => to \notin Tearing
    BY DEF Opening, Tearing
  <2> QED BY <1>1, <1>3, <2>1 DEF Types, Roles, MainRole, Threads
<1>5. WatchdogRole'
  BY <1>1, <1>2, <1>3, <1>4 DEF Roles, WatchdogRole
<1>6. MainRole'
  BY <1>2, <1>3, <1>4 DEF Roles, MainRole
<1>7. StreamTypeOK' => Types'
  BY <1>2, <1>4 DEF Types
<1>8. Held' = Held
  BY DEF Held
<1> QED BY <1>2, <1>3, <1>5, <1>6, <1>7, <1>8 DEF Roles

LEMMA SelectsDeviceInv ==
  ASSUME Inv, SelectsDevice
  PROVE  Inv'
<1>1. PICK s \in Streams : SelectDevice(s) /\ taken' = [taken EXCEPT ![Watchdog] = s]
  BY DEF SelectsDevice
<1>2. /\ pc[Watchdog] = "open" /\ GoTo(Watchdog, "configure")
      /\ UNCHANGED <<session, recovery, after, activeDriver, callback>>
  BY <1>1 DEF SelectsDevice, Building, controller, SelectDevice
<1>3. /\ session = 0 /\ taken[Watchdog] = 0
      /\ pc[Main] \in {"running", "join"} /\ taken[Main] = 0
  BY <1>2 DEF Inv, Roles, WatchdogRole, MainRole, Resting, MainResting
<1>4. Held = {} /\ s # 0 /\ Watchdog # Main /\ Watchdog \in Threads
  BY <1>3, StreamAssumption DEF Held, Threads, Watchdog, Main
<1>5. /\ pc' \in [Threads -> Resting \union Opening \union Tearing \union MainResting]
      /\ pc'[Watchdog] = "configure" /\ pc'[Main] = pc[Main]
  BY <1>2, Placed DEF Inv, Threads, Watchdog, Main, Opening
<1>6. /\ taken' \in [Threads -> Streams \union {0}]
      /\ taken'[Watchdog] = s /\ taken'[Main] = 0
  BY <1>1, <1>3, <1>4 DEF Inv, Types, Threads
<1>7. /\ StreamTypeOK' /\ Others(s)
      /\ stream'[s].mem = "live" /\ stream'[s].backend = "Ready"
      /\ stream'[s].driver = "opened" /\ stream'[s].fade = FadeConfigured
  BY <1>1, SelectFacts DEF Inv, Types
<1>8. Types'
  BY <1>2, <1>5, <1>6, <1>7 DEF Inv, Types
<1>9. Held' = {s}
  BY <1>2, <1>3, <1>4, <1>6 DEF Held
<1>10. activeDriver = 0 /\ callback = 0
  BY <1>4 DEF Inv, Lives
<1>11. Lives'
  BY <1>2, <1>4, <1>7, <1>9, <1>10 DEF Inv, Lives, Others
<1>12. WatchdogRole'
  BY <1>2, <1>3, <1>4, <1>5, <1>6 DEF WatchdogRole, Resting, Opening, Tearing, Closed
<1>13. MainRole'
  BY <1>2, <1>3, <1>5, <1>6 DEF MainRole, MainResting, Tearing
<1>14. Stopped'
  BY <1>2, <1>3, <1>4, <1>5, <1>6, <1>7, <1>10 DEF Stopped, Silent, Calls, Threads
<1>15. ~FadeConfigured.full
  BY DEF FadeConfigured
<1>16. Fades'
  BY <1>3, <1>5, <1>7, <1>15 DEF Inv, Fades, Others, Threads
<1> QED BY <1>8, <1>11, <1>12, <1>13, <1>14, <1>16 DEF Inv, Roles

LEMMA ConfiguresInv ==
  ASSUME Inv, Configures
  PROVE  Inv'
<1> DEFINE s == taken[Watchdog]
<1>1. PICK size \in Sizes : Configure(s, size)
  BY DEF Configures
<1>2. /\ pc[Watchdog] = "configure" /\ GoTo(Watchdog, "wire")
      /\ UNCHANGED <<session, recovery, after, taken, callback>> /\ activeDriver' = s
  BY <1>1 DEF Configures, Building, controller, Configure
<1>3. /\ pc'[Watchdog] = "wire" /\ pc'[Main] = pc[Main] /\ pc[Main] \notin Tearing
      /\ s \in Streams /\ Held = {s} /\ Roles' /\ Held' = Held
      /\ StreamTypeOK' => Types'
  BY <1>2, Builds DEF Inv, Opening
<1>4. /\ StreamTypeOK' /\ Others(s) /\ SameFade(s)
      /\ stream'[s].mem = stream[s].mem /\ stream'[s].backend = stream[s].backend
      /\ stream'[s].driver = "prepared"
  BY <1>1, <1>3, ConfigureFacts DEF Inv, Types
<1>5. \A z \in Streams \ {s} : stream[z].driver = "none"
  <2>1. \A z \in Streams \ {s} : stream[z].mem = "freed"
    BY <1>3, TypedStreams DEF Inv, Types, Lives, StreamType
  <2> QED BY <2>1 DEF Inv, Lives
<1>6. Lives'
  BY <1>2, <1>3, <1>4, <1>5 DEF Inv, Lives, Others
<1>7. Stopped'
  BY <1>2, <1>3, <1>4 DEF Inv, Stopped, Silent, Calls, Threads, Tearing
<1>8. Fades'
  BY <1>3, <1>4 DEF Inv, Fades, Others, SameFade, Threads, Tearing
<1> QED BY <1>3, <1>4, <1>6, <1>7, <1>8 DEF Inv

LEMMA WiresInv ==
  ASSUME Inv, Wires
  PROVE  Inv'
<1> DEFINE s == taken[Watchdog]
<1>1. /\ pc[Watchdog] = "wire" /\ GoTo(Watchdog, "start") /\ WireAndAttach(s)
      /\ UNCHANGED <<session, recovery, after, taken, callback, activeDriver>>
  BY DEF Wires, Building, controller, WireAndAttach
<1>2. /\ pc'[Watchdog] = "start" /\ pc'[Main] = pc[Main] /\ pc[Main] \notin Tearing
      /\ s \in Streams /\ Held = {s} /\ Roles' /\ Held' = Held
      /\ StreamTypeOK' => Types'
  BY <1>1, Builds DEF Inv, Opening
<1>3. StreamTypeOK' /\ Others(s) /\ SameDriver(s) /\ ~stream'[s].fade.full
  BY <1>1, <1>2, WireFacts DEF Inv, Types
<1>4. Lives'
  BY <1>1, <1>2, <1>3, LivesOn DEF Inv, Others, SameDriver
<1>5. Stopped'
  BY <1>1, <1>2, <1>3 DEF Inv, Stopped, Silent, Calls, SameDriver, Threads, Tearing
<1>6. Fades'
  BY <1>2, <1>3 DEF Inv, Fades, Others, Threads, Tearing
<1> QED BY <1>2, <1>3, <1>4, <1>5, <1>6 DEF Inv

LEMMA StartsInv ==
  ASSUME Inv, Starts
  PROVE  Inv'
<1> DEFINE s == taken[Watchdog]
<1>1. /\ pc[Watchdog] = "start" /\ GoTo(Watchdog, "swap") /\ Start(s)
      /\ UNCHANGED <<session, recovery, after, taken, callback, activeDriver>>
  BY DEF Starts, Building, controller, Start
<1>2. /\ pc'[Watchdog] = "swap" /\ pc'[Main] = pc[Main] /\ pc[Main] \notin Tearing
      /\ s \in Streams /\ Held = {s} /\ Roles' /\ Held' = Held
      /\ StreamTypeOK' => Types'
  BY <1>1, Builds DEF Inv, Opening
<1>3. /\ StreamTypeOK' /\ Others(s) /\ SameFade(s)
      /\ stream'[s].mem = stream[s].mem /\ stream[s].driver = "prepared"
  BY <1>1, <1>2, StartFacts DEF Inv, Types
<1>4. stream[s].mem = "live" /\ activeDriver = s
  BY <1>2, <1>3 DEF Inv, Lives
<1>5. Lives'
  BY <1>1, <1>2, <1>3, <1>4 DEF Inv, Lives, Others
<1>6. Stopped'
  BY <1>2 DEF Stopped, Threads, Tearing
<1>7. Fades'
  BY <1>2, <1>3 DEF Inv, Fades, Others, SameFade, Threads, Tearing
<1> QED BY <1>2, <1>3, <1>5, <1>6, <1>7 DEF Inv

LEMMA BuildFailsInv ==
  ASSUME Inv, NEW place \in {"configure", "start"}, BuildFails(place)
  PROVE  Inv'
<1> DEFINE s == taken[Watchdog]
<1>1. /\ pc[Watchdog] = place /\ GoTo(Watchdog, "detach")
      /\ after' = [after EXCEPT ![Watchdog] = "flag"]
      /\ UNCHANGED <<streamVars, session, recovery, taken>>
  BY DEF BuildFails, controller
<1>2. place \in Opening /\ "detach" \notin Opening /\ Watchdog # Main
  BY DEF Opening, Watchdog, Main
<1>3. /\ pc'[Watchdog] = "detach" /\ pc'[Main] = pc[Main] /\ pc[Main] \notin Tearing
      /\ s \in Streams /\ Held = {s} /\ Roles' /\ Held' = Held
      /\ StreamTypeOK' => Types'
  BY <1>1, <1>2, Builds DEF Inv
<1>4. StreamTypeOK'
  BY <1>1, SameStreams DEF Inv
<1>5. Lives'
  BY <1>1, <1>3 DEF Inv, Lives, streamVars
<1>6. Silent(s)'
  BY <1>1 DEF Inv, Stopped, Silent, Calls, streamVars
<1>7. Stopped'
  BY <1>1, <1>3, <1>6 DEF Stopped, Threads, Tearing
<1>8. Fades'
  BY <1>1, <1>3 DEF Inv, Fades, Threads, Tearing, streamVars
<1> QED BY <1>3, <1>4, <1>5, <1>7, <1>8 DEF Inv

\* The session gets the stream that was built.
LEMMA SwapsInv ==
  ASSUME Inv, Swaps
  PROVE  Inv'
<1>1. /\ pc[Watchdog] = "swap" /\ GoTo(Watchdog, "publish")
      /\ session' = taken[Watchdog] /\ taken' = [taken EXCEPT ![Watchdog] = 0]
      /\ UNCHANGED <<streamVars, recovery, after>>
  BY DEF Swaps, Building, controller
<1>2. /\ taken[Watchdog] \in Streams /\ session = 0
      /\ taken[Main] = 0 /\ pc[Main] \notin Tearing /\ Watchdog # Main
      /\ Watchdog \in Threads
  BY <1>1, Alone DEF Inv, Opening, Threads, Watchdog, Main
<1>3. /\ pc' \in [Threads -> Resting \union Opening \union Tearing \union MainResting]
      /\ pc'[Watchdog] = "publish" /\ pc'[Main] = pc[Main]
  BY <1>1, Placed DEF Inv, Threads, Watchdog, Main, Resting
<1>4. /\ taken' \in [Threads -> Streams \union {0}]
      /\ taken'[Watchdog] = 0 /\ taken'[Main] = taken[Main]
  BY <1>1, <1>2 DEF Inv, Types, Threads
<1>5. Types'
  BY <1>1, <1>2, <1>3, <1>4, SameStreams DEF Inv, Types
<1>6. Held' = Held
  BY <1>1, <1>2, <1>4 DEF Held
<1>7. pc[Main] \in {"running", "join"}
  BY <1>1 DEF Inv, Roles, MainRole
<1>8. WatchdogRole'
  BY <1>1, <1>3, <1>4 DEF WatchdogRole, Resting, Opening, Tearing, Closed
<1>9. MainRole'
  BY <1>1, <1>2, <1>3, <1>4, <1>7 DEF MainRole, MainResting, Tearing
<1>10. Lives'
  BY <1>1, <1>6 DEF Inv, Lives, streamVars
<1>11. Stopped' /\ Fades'
  BY <1>1, <1>2, <1>3 DEF Inv, Stopped, Fades, Threads, Tearing, streamVars
<1> QED BY <1>5, <1>8, <1>9, <1>10, <1>11 DEF Inv, Roles

----------------------------------------------------------------------------
(* The threads                                                             *)

LEMMA TeardownInv ==
  ASSUME Inv, NEW t \in Threads, TeardownStep(t)
  PROVE  Inv'
BY FadeBeginsInv, FadeEndsInv, StopStreamInv, StreamStoppedInv, DetachStreamInv,
   DestroyStreamInv DEF TeardownStep

\* The watchdog's loop, without what it builds.
LEMMA LoopInv ==
  ASSUME Inv,
         \/ Exits \/ ChecksFlag \/ NotDue \/ PollsRate \/ PollsBuffer
         \/ SimulatesLoss \/ NoSimulation \/ TicksStreaming \/ Stalls \/ Retries
         \/ RequestsReconfigure("reconfigured", "poll")
         \/ RequestsReconfigure("raterestored", "pollbuffer")
         \/ RequestsReconfigure("bufferadopted", "simulate")
         \/ EntersLost("lost", "flag") \/ EntersLost("simulatedloss", "tick")
  PROVE  Inv'
<1> USE DEF At, controller
<1>1. Watchdog \in Threads
  BY DEF Threads
<1>2. pc[Watchdog] \in Closed => session = 0
  BY DEF Inv, Roles, WatchdogRole
<1>3. recovery = "Lost" /\ pc[Watchdog] # "publish" => session = 0
  BY DEF Inv, Roles, WatchdogRole
<1>4. CASE Exits
  BY <1>3, <1>4, WatchdogRests DEF Exits, Resting, Closed
<1>5. CASE ChecksFlag
  <2>1. CASE reconfigure
    <3>1. TakeSession(Watchdog, "fade", "reconfigured")
      BY <1>5, <2>1 DEF ChecksFlag, Teardown
    <3> QED BY <1>1, <1>5, <3>1, Takes DEF ChecksFlag, Closed
  <2>2. CASE ~reconfigure
    BY <1>3, <1>5, <2>2, WatchdogRests DEF ChecksFlag, Resting, Closed
  <2> QED BY <2>1, <2>2
<1>6. CASE NotDue
  BY <1>3, <1>6, WatchdogRests DEF NotDue, Resting, Closed
<1>7. CASE PollsRate
  <2>1. CASE mismatch' /\ ~mismatch
    <3>1. TakeSession(Watchdog, "fade", "raterestored")
      BY <1>7, <2>1 DEF PollsRate, Teardown
    <3> QED BY <1>1, <1>7, <3>1, Takes DEF PollsRate, Closed
  <2>2. CASE ~(mismatch' /\ ~mismatch)
    BY <1>3, <1>7, <2>2, WatchdogRests DEF PollsRate, Resting, Closed
  <2> QED BY <2>1, <2>2
<1>8. CASE PollsBuffer
  <2>1. CASE ~rebuilding /\ Answers /\ device.preferred # published
    <3>1. TakeSession(Watchdog, "fade", "bufferadopted")
      BY <1>8, <2>1 DEF PollsBuffer, Teardown
    <3> QED BY <1>1, <1>8, <3>1, Takes DEF PollsBuffer, Closed
  <2>2. CASE ~(~rebuilding /\ Answers /\ device.preferred # published)
    BY <1>3, <1>8, <2>2, WatchdogRests DEF PollsBuffer, Resting, Closed
  <2> QED BY <2>1, <2>2
<1>9. CASE SimulatesLoss
  <2>1. TakeSession(Watchdog, "fade", "simulatedloss")
    BY <1>9 DEF SimulatesLoss, Teardown
  <2> QED BY <1>1, <1>9, <2>1, Takes DEF SimulatesLoss, Closed
<1>10. CASE NoSimulation
  BY <1>3, <1>10, WatchdogRests DEF NoSimulation, Resting, Closed
<1>11. CASE TicksStreaming
  <2>1. /\ pc[Watchdog] = "tick" /\ GoTo(Watchdog, "flag") /\ recovery' = recovery
        /\ UNCHANGED <<streamVars, session, taken, after>>
    BY <1>11 DEF TicksStreaming, Ticks
  <2> QED BY <1>3, <2>1, WatchdogRests DEF Resting, Closed
<1>12. CASE Stalls
  <2>1. TakeSession(Watchdog, "detach", "lost") /\ (session # 0 => Silent(session))
    BY <1>12 DEF Stalls, CloseStream, StallMayElapse, Silent
  <2> QED BY <1>1, <1>12, <2>1, Takes DEF Stalls, Ticks, Closed
<1>13. CASE Retries
  <2>1. session = 0
    BY <1>3, <1>13 DEF Retries, Ticks
  <2> QED BY <1>13, <2>1, WatchdogRests DEF Retries, Ticks, Resting
<1>14. CASE RequestsReconfigure("reconfigured", "poll")
  BY <1>2, <1>14, WatchdogRests DEF RequestsReconfigure, Resting, Closed
<1>15. CASE RequestsReconfigure("raterestored", "pollbuffer")
  BY <1>2, <1>15, WatchdogRests DEF RequestsReconfigure, Resting, Closed
<1>16. CASE RequestsReconfigure("bufferadopted", "simulate")
  BY <1>2, <1>16, WatchdogRests DEF RequestsReconfigure, Resting, Closed
<1>17. CASE EntersLost("lost", "flag")
  BY <1>2, <1>17, WatchdogRests DEF EntersLost, Resting, Closed
<1>18. CASE EntersLost("simulatedloss", "tick")
  BY <1>2, <1>18, WatchdogRests DEF EntersLost, Resting, Closed
<1> QED BY <1>4, <1>5, <1>6, <1>7, <1>8, <1>9, <1>10, <1>11, <1>12, <1>13, <1>14, <1>15,
           <1>16, <1>17, <1>18

LEMMA WatchdogInv ==
  ASSUME Inv, WatchdogStep
  PROVE  Inv'
<1>1. CASE OpenFails
  <2>1. session = 0
    BY <1>1 DEF Inv, Roles, WatchdogRole, OpenFails, Building
  <2> QED BY <1>1, <2>1, WatchdogRests DEF OpenFails, Building, Resting, controller
<1>2. CASE Publishes
  <2>1. /\ pc[Watchdog] = "publish" /\ GoTo(Watchdog, "flag") /\ recovery' = "Streaming"
        /\ UNCHANGED <<streamVars, session, taken, after>>
    BY <1>2 DEF Publishes, Building
  <2> QED BY <2>1, WatchdogRests DEF Resting, Closed
<1>3. CASE ~OpenFails /\ ~Publishes
  BY <1>3, LoopInv, SelectsDeviceInv, ConfiguresInv, WiresInv, StartsInv, SwapsInv,
     BuildFailsInv DEF WatchdogStep
<1> QED BY <1>1, <1>2, <1>3

\* The main thread goes from its loop to the join.
LEMMA LeavesLoopInv ==
  ASSUME Inv, LeavesLoop
  PROVE  Inv'
<1>1. /\ pc[Main] = "running" /\ GoTo(Main, "join")
      /\ UNCHANGED <<streamVars, session, taken, after, recovery>>
  BY DEF LeavesLoop, InMain, controller
<1>2. /\ pc' \in [Threads -> Resting \union Opening \union Tearing \union MainResting]
      /\ pc'[Main] = "join" /\ pc'[Watchdog] = pc[Watchdog]
  BY <1>1, Placed DEF Inv, Threads, Watchdog, Main, MainResting
<1>3. Types'
  BY <1>1, <1>2, SameStreams DEF Inv, Types
<1>4. Roles'
  BY <1>1, <1>2 DEF Inv, Roles, WatchdogRole, MainRole, MainResting, Tearing
<1>5. Lives'
  BY <1>1 DEF Inv, Lives, Held, streamVars
<1>6. Stopped'
  BY <1>1, <1>2 DEF Inv, Stopped, Silent, Calls, Threads, streamVars
<1>7. Fades'
  BY <1>1, <1>2 DEF Inv, Fades, FadesOut, Graceful, Calls, Threads, streamVars
<1> QED BY <1>3, <1>4, <1>5, <1>6, <1>7 DEF Inv

LEMMA MainInv ==
  ASSUME Inv, MainStep
  PROVE  Inv'
<1> USE DEF controller, InMain
<1>1. Main \in Threads
  BY DEF Threads
<1>2. CASE Joins
  <2>1. TakeSession(Main, "fade", "dispose")
    BY <1>2 DEF Joins, Teardown
  <2> QED BY <1>1, <1>2, <2>1, Takes DEF Joins
<1>3. CASE Disposes
  <2>1. TakeSession(Main, "detach", "done")
    BY <1>3 DEF Disposes, CloseStream
  <2>2. session = 0 /\ pc[Watchdog] = "exited"
    BY <1>3 DEF Disposes, Inv, Roles, MainRole
  <2> QED BY <1>1, <1>3, <2>1, <2>2, Takes DEF Disposes
<1> QED BY <1>2, <1>3, LeavesLoopInv DEF MainStep

----------------------------------------------------------------------------
(* The user interface, the driver and the device                           *)

\* Nothing the invariant reads is touched.
LEMMA Untouched ==
  ASSUME Inv, UNCHANGED <<stream, activeDriver, callback, session, recovery, thread>>,
         StreamTypeOK'
  PROVE  Inv'
<1> USE DEF thread
<1>1. Types' /\ Roles' /\ Lives'
  BY DEF Inv, Types, Roles, WatchdogRole, MainRole, Lives, Held
<1>2. Stopped' /\ Fades'
  BY DEF Inv, Stopped, Silent, Calls, Fades, FadesOut, Graceful
<1> QED BY <1>1, <1>2 DEF Inv

LEMMA UiInv ==
  ASSUME Inv, RequestsStop \/ RequestsBuffer \/ UiHandler
  PROVE  Inv'
<1>1. UNCHANGED <<streamVars, session, recovery, thread>>
  BY DEF RequestsStop, RequestsBuffer, UiHandler, StagesBuffer, IgnoresRequest,
         MarksReconfiguring, SetsFlag, InUi, InMain, controller, streamVars
<1> QED BY <1>1, Untouched, SameStreams DEF Inv, streamVars

LEMMA CalledInv ==
  ASSUME Inv, Called
  PROVE  Inv'
<1>1. /\ callback = 0 /\ activeDriver # 0 /\ callback' = activeDriver
      /\ UNCHANGED <<stream, activeDriver, device, session, recovery, thread>>
  BY DEF Called, CallbackBegins, Outside, controller
<1>2. PICK s \in Streams : Calls(s)
  BY DEF Called, CallbackBegins
<1>3. activeDriver = s /\ s \in Held
  BY <1>1, <1>2 DEF Inv, Lives, Calls
<1>4. Types'
  BY <1>1, TypedStreams DEF Inv, Types, StreamTypeOK, thread
<1>5. Roles'
  BY <1>1 DEF Inv, Roles, WatchdogRole, MainRole, thread
<1>6. Lives'
  BY <1>1, <1>3 DEF Inv, Lives, Held, thread
<1>7. \A z \in Streams : Silent(z) => Silent(z)'
  BY <1>1, <1>2, <1>3 DEF Silent, Calls
<1>8. /\ \A t \in Threads : pc[t] \in {"detach", "destroy"} => taken[t] \in Streams
      /\ pc[Watchdog] \in {"configure", "wire", "start"} => taken[Watchdog] \in Streams
  BY Alone DEF Inv, Tearing, Opening, Threads
<1>9. Stopped'
  BY <1>1, <1>7, <1>8 DEF Inv, Stopped, thread
<1>10. Fades'
  BY <1>1 DEF Inv, Fades, FadesOut, Graceful, Calls, thread
<1> QED BY <1>4, <1>5, <1>6, <1>9, <1>10 DEF Inv

\* The block that was rendered is one more step of its stream's fade.
LEMMA ReturnedInv ==
  ASSUME Inv, Returned
  PROVE  Inv'
<1> DEFINE s == callback
<1>1. /\ CallbackEnds /\ callback' = 0 /\ activeDriver' = activeDriver
      /\ UNCHANGED <<session, recovery, thread>>
  BY DEF Returned, CallbackEnds, Outside, controller
<1>2. /\ StreamTypeOK' /\ s \in Streams /\ Others(s) /\ SameDriver(s)
      /\ stream'[s].wasFull = stream[s].wasFull
      /\ stream'[s].fade \in {stream[s].fade, FadeNext(stream[s].fade)}
  BY <1>1, CallbackEndsFacts DEF Inv, Types
<1>3. Types'
  BY <1>1, <1>2 DEF Inv, Types, thread
<1>4. Roles'
  BY <1>1 DEF Inv, Roles, WatchdogRole, MainRole, thread
<1>5. Held' = Held
  BY <1>1 DEF Held, thread
<1>6. \A z \in Streams : SameDriver(z) /\ stream'[z].wasFull = stream[z].wasFull
  BY <1>2 DEF Others, SameDriver
<1>7. Lives'
  BY <1>1, <1>5, <1>6, LivesOn DEF Inv, SameDriver
<1>8. /\ \A t \in Threads : pc[t] \in Tearing => taken[t] \in Streams
      /\ pc[Watchdog] \in Opening => taken[Watchdog] \in Streams
  BY Alone DEF Inv, Threads
<1>9. Stopped'
  <2>1. \A z \in Streams : /\ Silent(z) => Silent(z)'
                           /\ stream'[z].backend = stream[z].backend
    BY <1>1, <1>6, StreamAssumption DEF Silent, Calls, SameDriver
  <2> QED BY <1>1, <1>8, <2>1 DEF Inv, Stopped, thread, Tearing, Opening
<1>10. stream[s].fade \in FadeType
  BY <1>2, TypedStreams DEF Inv, Types, StreamType
<1>11. Fades'
  <2>1. \A z \in Streams : ~(stream'[z].fade.full /\ stream'[z].fade.muted)
    BY <1>2, <1>10, FadeNextFacts DEF Inv, Fades, Others
  <2>2. \A z \in Streams : FadesOut(z) =>
          /\ FadesOut(z)'
          /\ stream[z].wasFull /\ stream[z].fade.muted => stream'[z].fade.muted
    BY <1>2, <1>10, FadeNextFacts DEF FadesOut, Others
  <2>3. \A z \in Streams : Calls(z)' <=> Calls(z)
    BY <1>6 DEF Calls, SameDriver
  <2>4. ASSUME NEW t \in Threads, pc'[t] \in {"wait", "stop"}
        PROVE  /\ FadesOut(taken[t])'
               /\ pc'[t] = "stop" /\ Graceful(t)' /\ Calls(taken[t])'
                    /\ stream'[taken'[t]].wasFull => stream'[taken'[t]].fade.muted
    <3>1. /\ pc[t] = pc'[t] /\ taken' = taken /\ after' = after
          /\ taken[t] \in Streams /\ FadesOut(taken[t])
      BY <1>1, <1>8, <2>4 DEF Inv, Fades, thread, Tearing
    <3> DEFINE z == taken[t]
    <3>2. FadesOut(z)' /\ (Calls(z)' <=> Calls(z)) /\ stream'[z].wasFull = stream[z].wasFull
          /\ (stream[z].wasFull /\ stream[z].fade.muted => stream'[z].fade.muted)
      BY <1>6, <2>2, <2>3, <3>1
    <3>3. pc[t] = "stop" /\ Graceful(t) /\ Calls(z) /\ stream[z].wasFull =>
            stream[z].fade.muted
      BY DEF Inv, Fades
    <3>4. Graceful(t)' <=> Graceful(t)
      BY <3>1 DEF Graceful
    <3> QED BY <3>1, <3>2, <3>3, <3>4
  <2> QED BY <2>1, <2>4 DEF Fades
<1> QED BY <1>3, <1>4, <1>7, <1>9, <1>11 DEF Inv

LEMMA HappensInv ==
  ASSUME Inv, Happens
  PROVE  Inv'
<1>1. /\ DeviceLost \/ PanelBuffer \/ PanelRate
      /\ UNCHANGED <<session, recovery, thread>>
  BY DEF Happens, Outside, controller
<1>2. /\ StreamTypeOK' /\ \A s \in Streams : MayDie(s)
      /\ UNCHANGED <<activeDriver, callback>>
  BY <1>1, HappensFacts DEF Inv, Types
<1>3. Types'
  BY <1>1, <1>2 DEF Inv, Types, thread
<1>4. Roles'
  BY <1>1 DEF Inv, Roles, WatchdogRole, MainRole, thread
<1>5. Held' = Held
  BY <1>1 DEF Held, thread
<1>6. Lives'
  BY <1>2, <1>5, LivesOn DEF Inv, MayDie
<1>7. /\ \A t \in Threads : pc[t] \in Tearing => taken[t] \in Streams
      /\ pc[Watchdog] \in Opening => taken[Watchdog] \in Streams
  BY Alone DEF Inv, Threads
<1>8. \A z \in Streams : /\ Calls(z)' => Calls(z)
                         /\ Silent(z) => Silent(z)'
                         /\ stream'[z].backend = stream[z].backend /\ SameFade(z)
  BY <1>2 DEF MayDie, Calls, Silent
<1>9. Stopped'
  BY <1>1, <1>7, <1>8 DEF Inv, Stopped, thread, Tearing, Opening
<1>10. Fades'
  <2>1. \A z \in Streams : ~(stream'[z].fade.full /\ stream'[z].fade.muted)
    BY <1>8 DEF Inv, Fades, SameFade
  <2>2. \A z \in Streams : FadesOut(z) => FadesOut(z)'
    BY <1>8 DEF FadesOut, SameFade
  <2> QED BY <1>1, <1>7, <1>8, <2>1, <2>2 DEF Inv, Fades, Graceful, SameFade, thread, Tearing
<1> QED BY <1>3, <1>4, <1>6, <1>9, <1>10 DEF Inv

LEMMA ReturnsInv ==
  ASSUME Inv, Returns
  PROVE  Inv'
<1>1. /\ UNCHANGED <<stream, activeDriver, callback, session, recovery, thread>>
      /\ device' = [device EXCEPT !.present = TRUE]
  BY DEF Returns, DeviceReturns, Outside, controller
<1>2. StreamTypeOK'
  BY <1>1, TypedStreams DEF Inv, Types, StreamTypeOK
<1> QED BY <1>1, <1>2, Untouched

LEMMA NextInv == Inv /\ [Next]_vars => Inv'
<1> SUFFICES ASSUME Inv, [Next]_vars PROVE Inv'
  OBVIOUS
<1>1. CASE Next
  BY <1>1, TeardownInv, WatchdogInv, MainInv, UiInv, CalledInv, ReturnedInv, HappensInv,
     ReturnsInv DEF Next
<1>2. CASE UNCHANGED vars
  <2>1. UNCHANGED <<streamVars, session, recovery, thread>>
    BY <1>2 DEF vars, controller
  <2> QED BY <2>1, Untouched, SameStreams DEF Inv, streamVars
<1> QED BY <1>1, <1>2

----------------------------------------------------------------------------
(* The size of a block                                                     *)

\* The stream's buffers were created, with a size that can be had.
Sized(s) == stream[s].buffer \in Sizes /\ Usable(stream[s].buffer)

\* Whatever is called back, or will be, has such buffers.
Fitted ==
  /\ \A s \in Streams : stream[s].driver \in {"prepared", "running"} => Sized(s)
  /\ session # 0 => Sized(session)
  /\ pc[Watchdog] \in {"wire", "start", "swap"} => Sized(taken[Watchdog])
  /\ pc[Watchdog] = "publish" => session # 0
  /\ callback # 0 => Sized(callback)

SameBuffer(s) == stream'[s].buffer = stream[s].buffer

LEMMA OneKeepsItsBuffer ==
  ASSUME stream \in [Streams -> StreamType], NEW s \in Streams, NEW r,
         stream' = [stream EXCEPT ![s] = r], r.buffer = stream[s].buffer
  PROVE  \A z \in Streams : SameBuffer(z)
BY DEF SameBuffer

LEMMA OperationsKeepBuffers ==
  ASSUME StreamTypeOK, NEW s \in Streams,
         \/ RequestFadeOut(s) \/ StopBegins(s) \/ StopEnds(s) \/ Detach(s)
         \/ WireAndAttach(s) \/ Start(s)
  PROVE  \A z \in Streams : SameBuffer(z)
<1>1. stream \in [Streams -> StreamType] /\ stream[s] \in StreamType
  BY TypedStreams
<1>2. \E r : stream' = [stream EXCEPT ![s] = r] /\ r.buffer = stream[s].buffer
  <2>1. CASE RequestFadeOut(s)
    <3> DEFINE r == [stream[s] EXCEPT !.fade = [stream[s].fade EXCEPT !.desired = "FadingOut"],
                                      !.wasFull = stream[s].fade.full]
    <3>1. stream' = [stream EXCEPT ![s] = r]
      BY <1>1, <2>1 DEF RequestFadeOut, StreamType
    <3>2. r.buffer = stream[s].buffer
      BY <1>1 DEF StreamType
    <3> QED BY <3>1, <3>2
  <2>2. CASE StopBegins(s)
    <3> DEFINE r == [stream[s] EXCEPT !.backend =
                       IF stream[s].backend = "Streaming" THEN "Stopping" ELSE "Ready"]
    <3>1. stream' = [stream EXCEPT ![s] = r]
      BY <1>1, <2>2 DEF StopBegins, StreamType
    <3>2. r.buffer = stream[s].buffer
      BY <1>1 DEF StreamType
    <3> QED BY <3>1, <3>2
  <2>3. CASE StopEnds(s)
    <3> DEFINE r == [stream[s] EXCEPT !.backend = "Ready", !.driver =
                       IF stream[s].driver = "running" THEN "prepared" ELSE stream[s].driver]
    <3>1. stream' = [stream EXCEPT ![s] = r]
      BY <1>1, <2>3 DEF StopEnds, StreamType
    <3>2. r.buffer = stream[s].buffer
      BY <1>1 DEF StreamType
    <3> QED BY <3>1, <3>2
  <2>4. CASE Detach(s)
    <3> DEFINE r == [stream[s] EXCEPT !.attached = FALSE]
    <3>1. stream' = [stream EXCEPT ![s] = r]
      BY <1>1, <2>4 DEF Detach, StreamType
    <3>2. r.buffer = stream[s].buffer
      BY <1>1 DEF StreamType
    <3> QED BY <3>1, <3>2
  <2>5. CASE WireAndAttach(s)
    <3> DEFINE r == [stream[s] EXCEPT !.attached = TRUE,
                                      !.fade = [FadeConfigured EXCEPT !.desired = "FadingIn"]]
    <3>1. stream' = [stream EXCEPT ![s] = r]
      BY <1>1, <2>5 DEF WireAndAttach, StreamType
    <3>2. r.buffer = stream[s].buffer
      BY <1>1 DEF StreamType
    <3> QED BY <3>1, <3>2
  <2>6. CASE Start(s)
    <3> DEFINE r == [stream[s] EXCEPT !.backend = "Streaming", !.driver = "running"]
    <3>1. stream' = [stream EXCEPT ![s] = r]
      BY <1>1, <2>6 DEF Start, StreamType
    <3>2. r.buffer = stream[s].buffer
      BY <1>1 DEF StreamType
    <3> QED BY <3>1, <3>2
  <2> QED BY <2>1, <2>2, <2>3, <2>4, <2>5, <2>6
<1> QED BY <1>1, <1>2, OneKeepsItsBuffer

LEMMA CallbackKeepsBuffers ==
  ASSUME StreamTypeOK, CallbackEnds
  PROVE  \A z \in Streams : SameBuffer(z)
<1> DEFINE s == callback
           r == [stream[s] EXCEPT !.fade = FadeNext(stream[s].fade)]
<1>1. stream \in [Streams -> StreamType] /\ s \in Streams /\ stream[s] \in StreamType
  BY TypedStreams DEF CallbackEnds
<1>2. stream' = stream \/ stream' = [stream EXCEPT ![s] = r]
  BY <1>1 DEF CallbackEnds, StreamType
<1>3. r.buffer = stream[s].buffer
  BY <1>1 DEF StreamType
<1> HIDE DEF r
<1>4. CASE stream' = stream
  BY <1>4 DEF SameBuffer
<1>5. CASE stream' = [stream EXCEPT ![s] = r]
  BY <1>1, <1>3, <1>5, OneKeepsItsBuffer
<1> QED BY <1>2, <1>4, <1>5

LEMMA DeathsKeepBuffers ==
  ASSUME StreamTypeOK, DeviceLost \/ PanelBuffer \/ PanelRate
  PROVE  \A z \in Streams : SameBuffer(z)
<1>1. stream \in [Streams -> StreamType]
  BY TypedStreams
<1>2. stream' \in {stream, [s \in Streams |-> Dead(s)],
                   [s \in Streams |-> IF Calls(s) THEN Dead(s) ELSE stream[s]]}
  BY DEF DeviceLost, PanelBuffer, PanelRate
<1>3. \A s \in Streams : stream'[s] \in {stream[s], Dead(s)}
  BY <1>2
<1>4. \A s \in Streams : Dead(s).buffer = stream[s].buffer
  BY <1>1 DEF Dead, StreamType
<1> QED BY <1>3, <1>4 DEF SameBuffer

LEMMA ConfiguredSize ==
  ASSUME StreamTypeOK, NEW s \in Streams, NEW size \in Sizes, Configure(s, size)
  PROVE  stream'[s].buffer = size
<1>1. stream[s] \in StreamType
  BY TypedStreams
<1> QED BY <1>1, TypedStreams DEF Configure, StreamType

\* A step that leaves buffers alone and puts no other stream to use.
LEMMA StaysFitted ==
  ASSUME Inv, Fitted, \A z \in Streams : SameBuffer(z),
         \A z \in Streams : stream'[z].driver \in {"prepared", "running"} =>
                              stream[z].driver \in {"prepared", "running"},
         session' \in {session, 0}, callback' \in {callback, 0},
         pc'[Watchdog] \in {"wire", "start", "swap"} =>
           pc[Watchdog] \in {"wire", "start", "swap"} /\ taken'[Watchdog] = taken[Watchdog],
         pc'[Watchdog] = "publish" => pc[Watchdog] = "publish" /\ session' = session
  PROVE  Fitted'
<1>1. /\ session \in Streams \union {0} /\ callback \in Streams \union {0}
      /\ pc[Watchdog] \in {"wire", "start", "swap"} => taken[Watchdog] \in Streams
  BY TypedStreams, Alone DEF Inv, Types, Threads, Opening
<1>2. \A z \in Streams : Sized(z)' <=> Sized(z)
  BY DEF SameBuffer, Sized, Usable
<1> QED BY <1>1, <1>2 DEF Fitted

LEMMA InitFitted == Init => Fitted
<1> SUFFICES ASSUME Init PROVE Fitted
  OBVIOUS
<1>1. PICK s \in Streams, size \in Sizes :
        /\ FirstUsable(size) /\ session = s
        /\ stream = [z \in Streams |->
             IF z # s THEN Unused
             ELSE [Unused EXCEPT !.mem = "live", !.backend = "Streaming",
                                 !.driver = "running", !.attached = TRUE, !.buffer = size,
                                 !.fade = [FadeConfigured EXCEPT !.desired = "FadingIn"]]]
  BY DEF Init
<1>2. stream[s].buffer = size /\ \A z \in Streams \ {s} : stream[z].driver = "none"
  BY <1>1 DEF Unused
<1>3. Sized(s)
  BY <1>1, <1>2 DEF Sized, FirstUsable
<1>4. pc[Watchdog] = "flag" /\ callback = 0
  BY DEF Init, Threads, Watchdog, Main
<1> QED BY <1>1, <1>2, <1>3, <1>4 DEF Fitted

LEMMA TeardownFitted ==
  ASSUME Inv, Fitted, NEW t \in Threads, TeardownStep(t)
  PROVE  Fitted'
<1>1. /\ pc[t] \in Tearing /\ UNCHANGED session
      /\ taken[t] \in Streams /\ Held = {taken[t]} /\ session = 0
      /\ \A u \in Threads \ {t} : taken[u] = 0 /\ pc[u] \notin Tearing \union Opening
  <2>1. pc[t] \in Tearing /\ UNCHANGED session
    BY DEF TeardownStep, FadeBegins, FadeEnds, StopStream, StreamStopped, DetachStream,
           DestroyStream, TearingDown, Tearing
  <2> QED BY <2>1, Alone DEF Inv
<1>2. PICK place : /\ GoTo(t, place) /\ place \notin Opening \union {"publish"}
                   /\ place \in Resting \union Opening \union Tearing \union MainResting
  <2>1. /\ after[Main] \in {"dispose", "done"} \/ t # Main
        /\ after[Watchdog] \in Closed \union {"flag"} \/ t # Watchdog
    BY <1>1 DEF Inv, Roles, WatchdogRole, MainRole
  <2>2. after[t] \in {"dispose", "done", "flag"} \union Closed
    BY <2>1 DEF Threads
  <2> QED BY <2>2 DEF TeardownStep, FadeBegins, FadeEnds, StopStream, StreamStopped,
                      DetachStream, DestroyStream, Resting, Opening, Tearing, MainResting, Closed
<1>3. /\ pc'[t] = place /\ \A u \in Threads \ {t} : pc'[u] = pc[u]
  BY <1>2, Placed DEF Inv
<1>4. pc'[Watchdog] \notin Opening \union {"publish"}
  <2>1. CASE t = Watchdog
    BY <1>2, <1>3, <2>1
  <2>2. CASE t # Watchdog
    <3>1. pc[Main] \in Tearing
      BY <1>1, <2>2 DEF Threads
    <3>2. pc[Watchdog] = "exited"
      BY <3>1 DEF Inv, Roles, MainRole, Tearing
    <3> QED BY <1>3, <2>2, <3>2 DEF Threads, Opening
  <2> QED BY <2>1, <2>2
<1>5. CASE DestroyStream(t)
  <2> DEFINE s == taken[t]
  <2>1. Others(s) /\ stream'[s] = Unused /\ callback' = callback
    BY <1>1, <1>5, DestroyFacts DEF Inv, Types, DestroyStream, Destroy
  <2>2. pc[t] = "destroy"
    BY <1>5 DEF DestroyStream, TearingDown
  <2>3. callback # s /\ callback \in Streams \union {0}
    BY <2>2, TypedStreams DEF Inv, Types, Stopped, Silent
  <2>4. Unused.driver = "none"
    BY DEF Unused
  <2> QED BY <1>1, <1>4, <2>1, <2>3, <2>4 DEF Fitted, Others, Sized, Usable, Opening
<1>6. CASE FadeEnds(t)
  <2>1. UNCHANGED streamVars
    BY <1>6 DEF FadeEnds
  <2> QED BY <1>1, <1>4, <2>1, StaysFitted DEF streamVars, SameBuffer, Opening
<1>7. CASE FadeBegins(t) \/ StopStream(t) \/ StreamStopped(t) \/ DetachStream(t)
  <2> DEFINE s == taken[t]
  <2>1. /\ RequestFadeOut(s) \/ StopBegins(s) \/ StopEnds(s) \/ Detach(s)
        /\ UNCHANGED callback
    BY <1>7 DEF FadeBegins, StopStream, StreamStopped, DetachStream, RequestFadeOut,
                StopBegins, StopEnds, Detach
  <2>2. \A z \in Streams : SameBuffer(z)
    BY <1>1, <2>1, OperationsKeepBuffers DEF Inv, Types
  <2>3. /\ Others(s)
        /\ stream'[s].driver \in {stream[s].driver, "prepared"}
        /\ stream'[s].driver = stream[s].driver \/ stream[s].driver = "running"
    BY <1>1, <2>1, RequestFacts, StopBeginsFacts, StopEndsFacts, DetachFacts
    DEF Inv, Types, SameDriver
  <2> QED BY <1>1, <1>4, <2>1, <2>2, <2>3, StaysFitted DEF Others, Opening
<1> QED BY <1>5, <1>6, <1>7 DEF TeardownStep

\* A step of the watchdog's loop, or a failed attempt, leaves the streams alone and begins
\* no building.
LEMMA LoopFitted ==
  ASSUME Inv, Fitted, UNCHANGED streamVars, session' \in {session, 0},
         NEW place \in Resting \union Tearing, place # "publish", GoTo(Watchdog, place)
  PROVE  Fitted'
<1>1. pc'[Watchdog] = place
  BY Placed DEF Inv, Threads
<1>2. place \notin Opening
  BY DEF Resting, Tearing, Opening
<1> QED BY <1>1, <1>2, StaysFitted DEF streamVars, SameBuffer, Opening

LEMMA LoopLeavesStreams ==
  ASSUME Inv,
         \/ Exits \/ ChecksFlag \/ NotDue \/ PollsRate \/ PollsBuffer
         \/ SimulatesLoss \/ NoSimulation \/ TicksStreaming \/ Stalls \/ Retries
         \/ RequestsReconfigure("reconfigured", "poll")
         \/ RequestsReconfigure("raterestored", "pollbuffer")
         \/ RequestsReconfigure("bufferadopted", "simulate")
         \/ EntersLost("lost", "flag") \/ EntersLost("simulatedloss", "tick")
         \/ OpenFails \/ Publishes
  PROVE  /\ UNCHANGED streamVars /\ session' \in {session, 0}
         /\ \E place \in Resting \union Tearing : place # "publish" /\ GoTo(Watchdog, place)
<1> USE DEF At, Resting, Tearing
<1>1. CASE Exits \/ NotDue \/ NoSimulation \/ OpenFails \/ Publishes
  BY <1>1 DEF Exits, NotDue, NoSimulation, OpenFails, Publishes, Building
<1>2. CASE ChecksFlag
  BY <1>2 DEF ChecksFlag, Teardown, TakeSession
<1>3. CASE PollsRate
  BY <1>3 DEF PollsRate, Teardown, TakeSession
<1>4. CASE PollsBuffer
  BY <1>4 DEF PollsBuffer, Teardown, TakeSession
<1>5. CASE SimulatesLoss
  BY <1>5 DEF SimulatesLoss, Teardown, TakeSession
<1>6. CASE TicksStreaming \/ Retries
  BY <1>6 DEF TicksStreaming, Retries, Ticks
<1>7. CASE Stalls
  BY <1>7 DEF Stalls, Ticks, CloseStream, TakeSession
<1>8. CASE \/ RequestsReconfigure("reconfigured", "poll")
           \/ RequestsReconfigure("raterestored", "pollbuffer")
           \/ RequestsReconfigure("bufferadopted", "simulate")
  BY <1>8 DEF RequestsReconfigure
<1>9. CASE EntersLost("lost", "flag") \/ EntersLost("simulatedloss", "tick")
  BY <1>9 DEF EntersLost
<1> QED BY <1>1, <1>2, <1>3, <1>4, <1>5, <1>6, <1>7, <1>8, <1>9

\* What is built gets a size that can be had.
LEMMA BuildFitted ==
  ASSUME Inv, Fitted,
         \/ SelectsDevice \/ Configures \/ Wires \/ Starts \/ Swaps
         \/ BuildFails("configure") \/ BuildFails("start")
  PROVE  Fitted'
<1> DEFINE s == taken[Watchdog]
<1>1. CASE SelectsDevice
  <2>1. PICK z \in Streams : SelectDevice(z)
    BY <1>1 DEF SelectsDevice
  <2>2. /\ pc[Watchdog] = "open" /\ GoTo(Watchdog, "configure") /\ UNCHANGED session
        /\ UNCHANGED callback /\ callback # z
    BY <1>1, <2>1 DEF SelectsDevice, Building, SelectDevice, Free
  <2>3. session = 0 /\ callback \in Streams \union {0}
    BY <2>2, TypedStreams DEF Inv, Types, Roles, WatchdogRole
  <2>4. pc'[Watchdog] = "configure"
    BY <2>2, Placed DEF Inv, Threads, Opening
  <2>5. Others(z) /\ stream'[z].driver = "opened"
    BY <2>1, SelectFacts DEF Inv, Types
  <2> QED BY <2>2, <2>3, <2>4, <2>5 DEF Fitted, Others, Sized, Usable
<1>2. CASE Configures
  <2>1. PICK size \in Sizes : BufferChoice(size) /\ Configure(s, size)
    BY <1>2 DEF Configures
  <2>2. /\ pc[Watchdog] = "configure" /\ GoTo(Watchdog, "wire")
        /\ UNCHANGED <<session, taken, callback>>
    BY <1>2, <2>1 DEF Configures, Building, Configure
  <2>3. /\ s \in Streams /\ session = 0
    BY <2>2, Alone DEF Inv, Opening, Threads
  <2>4. pc'[Watchdog] = "wire"
    BY <2>2, Placed DEF Inv, Threads, Opening
  <2>5. Others(s) /\ stream'[s].buffer = size
    BY <2>1, <2>3, ConfigureFacts, ConfiguredSize DEF Inv, Types
  <2>6. Usable(size)
    BY <2>1 DEF BufferChoice, FirstUsable
  <2>7. callback # s /\ callback \in Streams \union {0}
    BY <2>2, TypedStreams DEF Inv, Types, Stopped, Silent
  <2>8. Sized(s)'
    BY <2>2, <2>5, <2>6 DEF Sized, Usable
  <2>9. \A z \in Streams \ {s} : Sized(z) => Sized(z)'
    BY <2>5 DEF Sized, Usable, Others
  <2> QED BY <2>2, <2>3, <2>4, <2>5, <2>7, <2>8, <2>9 DEF Fitted, Others
<1>3. CASE Wires
  <2>1. /\ pc[Watchdog] = "wire" /\ GoTo(Watchdog, "start") /\ WireAndAttach(s)
        /\ UNCHANGED <<session, taken, callback>>
    BY <1>3 DEF Wires, Building, WireAndAttach
  <2>2. s \in Streams
    BY <2>1, Alone DEF Inv, Opening, Threads
  <2>3. pc'[Watchdog] = "start"
    BY <2>1, Placed DEF Inv, Threads, Opening
  <2>4. Others(s) /\ SameDriver(s) /\ \A z \in Streams : SameBuffer(z)
    BY <2>1, <2>2, WireFacts, OperationsKeepBuffers DEF Inv, Types
  <2> QED BY <2>1, <2>3, <2>4, StaysFitted DEF Others, SameDriver
<1>4. CASE Starts
  <2>1. /\ pc[Watchdog] = "start" /\ GoTo(Watchdog, "swap") /\ Start(s)
        /\ UNCHANGED <<session, taken, callback>>
    BY <1>4 DEF Starts, Building, Start
  <2>2. s \in Streams
    BY <2>1, Alone DEF Inv, Opening, Threads
  <2>3. pc'[Watchdog] = "swap"
    BY <2>1, Placed DEF Inv, Threads, Opening
  <2>4. Others(s) /\ stream[s].driver = "prepared" /\ \A z \in Streams : SameBuffer(z)
    BY <2>1, <2>2, StartFacts, OperationsKeepBuffers DEF Inv, Types
  <2> QED BY <2>1, <2>3, <2>4, StaysFitted DEF Others
<1>5. CASE Swaps
  <2>1. /\ pc[Watchdog] = "swap" /\ GoTo(Watchdog, "publish") /\ session' = s
        /\ UNCHANGED streamVars
    BY <1>5 DEF Swaps, Building
  <2>2. s \in Streams /\ s # 0
    BY <2>1, Alone, StreamAssumption DEF Inv, Opening, Threads
  <2>3. pc'[Watchdog] = "publish"
    BY <2>1, Placed DEF Inv, Threads, Resting
  <2> QED BY <2>1, <2>2, <2>3 DEF Fitted, Sized, Usable, streamVars
<1>6. CASE BuildFails("configure") \/ BuildFails("start")
  BY <1>6, LoopFitted DEF BuildFails, Tearing
<1> QED BY <1>1, <1>2, <1>3, <1>4, <1>5, <1>6

LEMMA MainFitted ==
  ASSUME Inv, Fitted, MainStep \/ RequestsStop \/ RequestsBuffer \/ UiHandler
  PROVE  Fitted'
<1>1. CASE RequestsStop \/ RequestsBuffer \/ UiHandler
  BY <1>1 DEF RequestsStop, InMain, RequestsBuffer, UiHandler, StagesBuffer, IgnoresRequest,
              MarksReconfiguring, SetsFlag, InUi, Fitted, Sized, Usable, streamVars, thread
<1>2. CASE MainStep
  <2>1. PICK place : /\ GoTo(Main, place) /\ UNCHANGED streamVars
                     /\ place \in {"join", "fade", "detach", "dispose", "done"}
                     /\ session' \in {session, 0}
                     /\ session' = session \/ pc[Watchdog] = "exited"
                     /\ taken'[Watchdog] = taken[Watchdog]
    <3>1. Main \in Threads /\ Watchdog \in Threads /\ Main # Watchdog
      BY DEF Threads, Main, Watchdog
    <3>2. taken \in [Threads -> Streams \union {0}]
      BY DEF Inv, Types
    <3>3. pc[Main] = "dispose" => pc[Watchdog] = "exited"
      BY DEF Inv, Roles, MainRole
    <3> QED BY <1>2, <3>1, <3>2, <3>3 DEF MainStep, LeavesLoop, Joins, Disposes, InMain,
                              Teardown, CloseStream, TakeSession
  <2>2. pc'[Watchdog] = pc[Watchdog]
    BY <2>1, Placed DEF Inv, Threads, Main, Watchdog, MainResting, Tearing
  <2> QED BY <2>1, <2>2, StaysFitted DEF streamVars, SameBuffer
<1> QED BY <1>1, <1>2

LEMMA OutsideFitted ==
  ASSUME Inv, Fitted, Called \/ Returned \/ Happens \/ Returns
  PROVE  Fitted'
<1>1. UNCHANGED <<session, pc, taken>>
  BY DEF Called, Returned, Happens, Returns, Outside, thread
<1>2. CASE Called
  <2>1. /\ UNCHANGED stream /\ callback' = activeDriver
        /\ \E s \in Streams : Calls(s)
    BY <1>2 DEF Called, CallbackBegins
  <2>2. Sized(activeDriver)
    BY <2>1 DEF Inv, Lives, Fitted, Calls
  <2> QED BY <1>1, <2>1, <2>2 DEF Fitted, Sized, Usable
<1>3. CASE Returned
  <2>1. CallbackEnds /\ callback' = 0
    BY <1>3 DEF Returned, CallbackEnds
  <2>2. /\ \A z \in Streams : SameBuffer(z)
        /\ \A z \in Streams : stream'[z].driver = stream[z].driver
    BY <2>1, CallbackEndsFacts, CallbackKeepsBuffers DEF Inv, Types, Others, SameDriver
  <2> QED BY <1>1, <2>1, <2>2, StaysFitted
<1>4. CASE Happens
  <2>1. DeviceLost \/ PanelBuffer \/ PanelRate
    BY <1>4 DEF Happens
  <2>2. /\ \A z \in Streams : SameBuffer(z)
        /\ \A z \in Streams : MayDie(z) /\ UNCHANGED callback
    BY <2>1, HappensFacts, DeathsKeepBuffers DEF Inv, Types
  <2>3. UNCHANGED callback
    BY <2>1, HappensFacts DEF Inv, Types
  <2> QED BY <1>1, <2>2, <2>3, StaysFitted DEF MayDie
<1>5. CASE Returns
  BY <1>1, <1>5 DEF Returns, DeviceReturns, Fitted, Sized, Usable
<1> QED BY <1>2, <1>3, <1>4, <1>5

LEMMA NextFitted == Inv /\ Fitted /\ [Next]_vars => Fitted'
<1> SUFFICES ASSUME Inv, Fitted, [Next]_vars PROVE Fitted'
  OBVIOUS
<1>1. CASE WatchdogStep
  BY <1>1, BuildFitted, LoopFitted, LoopLeavesStreams DEF WatchdogStep
<1>2. CASE UNCHANGED vars
  BY <1>2 DEF vars, streamVars, thread, Fitted, Sized, Usable
<1> QED BY <1>1, <1>2, TeardownFitted, MainFitted, OutsideFitted DEF Next

----------------------------------------------------------------------------
(* The rest of the state                                                   *)

\* Sizes that are on record are the driver's, and none is larger than the engine takes.
Recorded ==
  /\ published \in Sizes /\ published <= MaxBlock
  /\ first \in Sizes
  /\ requested \in Sizes \union {0} /\ requested <= MaxBlock

Flags ==
  /\ rebuilding \in BOOLEAN
  /\ actualRateOk \in BOOLEAN /\ mismatch \in BOOLEAN
  /\ recovery \in {"Streaming", "Lost"}
  /\ idle \in {"nobaseline", "moving", "armed"} /\ counted \in BOOLEAN
  /\ reconfigure \in BOOLEAN /\ simulated \in BOOLEAN
  /\ ui \in {"idle", "requesting", "staged", "marked"} /\ stop \in BOOLEAN
  /\ events \in 0..MaxEvents

SessionInv == Inv /\ Fitted /\ Recorded /\ Flags

LEMMA InitSession == Init => SessionInv
<1> SUFFICES ASSUME Init PROVE SessionInv
  OBVIOUS
<1>1. Recorded
  <2>1. PICK size \in Sizes : FirstUsable(size) /\ published = size /\ first = size
    BY DEF Init
  <2>2. requested = 0
    BY DEF Init
  <2> QED BY <2>1, <2>2, StreamAssumption DEF Recorded, FirstUsable, Usable
<1>2. Flags
  <2>1. /\ rebuilding = FALSE /\ actualRateOk = TRUE /\ mismatch = FALSE
        /\ recovery = "Streaming" /\ idle = "nobaseline" /\ counted = FALSE
        /\ reconfigure = FALSE /\ simulated = FALSE /\ ui = "idle" /\ stop = FALSE
    BY DEF Init
  <2>2. events \in 0..MaxEvents
    BY SessionAssumption DEF Init
  <2> QED BY <2>1, <2>2 DEF Flags
<1> QED BY <1>1, <1>2, InitInv, InitFitted DEF SessionInv

LEMMA NextRecorded ==
  ASSUME SessionInv, [Next]_vars
  PROVE  Recorded'
<1>1. device.preferred \in Sizes /\ session \in Streams \union {0}
  BY TypedStreams DEF SessionInv, Inv, Types
<1>2. CASE UNCHANGED settings
  BY <1>2 DEF SessionInv, Recorded, settings
<1>3. CASE PollsBuffer
  <2>1. UNCHANGED <<published, first>> /\ requested' \in {requested, published, device.preferred}
        /\ (requested' = device.preferred => requested' = requested \/ requested' <= MaxBlock
                                              \/ requested' = published)
    BY <1>3 DEF PollsBuffer, At
  <2> QED BY <1>1, <2>1 DEF SessionInv, Recorded
<1>4. CASE Publishes
  <2>1. session \in Streams /\ published' = stream[session].buffer
        /\ UNCHANGED <<first, requested>>
    BY <1>1, <1>4 DEF SessionInv, Fitted, Publishes, Building
  <2>2. session # 0
    BY <1>4 DEF SessionInv, Fitted, Publishes, Building
  <2>3. stream[session].buffer \in Sizes /\ stream[session].buffer <= MaxBlock
    BY <2>2 DEF SessionInv, Fitted, Sized, Usable
  <2> QED BY <2>1, <2>3 DEF SessionInv, Recorded
<1>5. CASE StagesBuffer
  BY <1>5 DEF StagesBuffer, InUi, SessionInv, Recorded
<1>6. CASE UNCHANGED <<published, first, requested>>
  BY <1>6 DEF SessionInv, Recorded
<1>7. ASSUME NEW t \in Threads, TeardownStep(t) PROVE UNCHANGED settings
  BY <1>7 DEF TeardownStep, FadeBegins, FadeEnds, StopStream, StreamStopped, DetachStream,
              DestroyStream, TearingDown
<1>8. CASE WatchdogStep /\ ~PollsBuffer /\ ~Publishes
  <2>1. UNCHANGED <<published, first, requested>>
    BY <1>8 DEF WatchdogStep, Exits, ChecksFlag, NotDue, PollsRate, SimulatesLoss, NoSimulation,
      TicksStreaming, Stalls, Retries, RequestsReconfigure, EntersLost, SelectsDevice, OpenFails,
      Configures, Wires, Starts, Swaps, BuildFails, At, Ticks, Building, settings
  <2> QED BY <1>6, <2>1
<1>9. CASE MainStep \/ RequestsStop
  BY <1>2, <1>9 DEF MainStep, RequestsStop, LeavesLoop, Joins, Disposes, InMain
<1>10. CASE RequestsBuffer \/ UiHandler
  BY <1>5, <1>6, <1>10 DEF RequestsBuffer, UiHandler, IgnoresRequest, MarksReconfiguring, SetsFlag,
                    InUi
<1>11. CASE Called \/ Returned \/ Happens \/ Returns
  BY <1>2, <1>11 DEF Called, Returned, Happens, Returns, Outside
<1>12. CASE UNCHANGED vars
  BY <1>2, <1>12 DEF vars
<1> QED BY <1>2, <1>3, <1>4, <1>7, <1>8, <1>9, <1>10, <1>11, <1>12 DEF Next

LEMMA NextFlags ==
  ASSUME SessionInv, [Next]_vars
  PROVE  Flags'
<1> USE SessionAssumption
<1>1. device.rateOk \in BOOLEAN
  BY TypedStreams DEF SessionInv, Inv, Types
<1>2. ASSUME NEW t \in Threads, TeardownStep(t) PROVE Flags'
  BY <1>2 DEF TeardownStep, FadeBegins, FadeEnds, StopStream, StreamStopped, DetachStream,
              DestroyStream, TearingDown, settings, polled, controller, users, SessionInv, Flags
<1>3. CASE \/ Exits \/ ChecksFlag \/ NotDue \/ NoSimulation \/ TicksStreaming \/ Stalls
           \/ Retries \/ PollsBuffer
  <2>1. /\ UNCHANGED <<actualRateOk, mismatch, recovery, simulated, ui, stop, events>>
        /\ UNCHANGED rebuilding \/ rebuilding' = TRUE
        /\ UNCHANGED idle \/ idle' \in {"moving", "armed"}
        /\ UNCHANGED counted \/ counted' = FALSE
        /\ UNCHANGED reconfigure \/ reconfigure' = FALSE
    BY <1>3 DEF Exits, ChecksFlag, NotDue, NoSimulation, TicksStreaming, Stalls, Retries,
                PollsBuffer, At, Ticks, polled, controller
  <2>2. rebuilding' \in BOOLEAN
    BY <2>1 DEF SessionInv, Flags
  <2>3. counted' \in BOOLEAN
    BY <2>1 DEF SessionInv, Flags
  <2>4. reconfigure' \in BOOLEAN
    BY <2>1 DEF SessionInv, Flags
  <2> QED BY <2>1, <2>2, <2>3, <2>4 DEF SessionInv, Flags
<1>4. CASE PollsRate
  BY <1>1, <1>4 DEF PollsRate, At, controller, SessionInv, Flags
<1>5. CASE SimulatesLoss
  BY <1>5 DEF SimulatesLoss, Disturbs, settings, polled, controller, SessionInv, Flags
<1>6. ASSUME NEW place, NEW next, RequestsReconfigure(place, next) \/ EntersLost(place, next)
      PROVE  Flags'
  BY <1>6 DEF RequestsReconfigure, EntersLost, At, polled, SessionInv, Flags
<1>7. CASE \/ SelectsDevice \/ OpenFails \/ Configures \/ Wires \/ Starts \/ Swaps
           \/ BuildFails("configure") \/ BuildFails("start")
  BY <1>7 DEF SelectsDevice, OpenFails, Configures, Wires, Starts, Swaps, BuildFails,
              Building, settings, polled, controller, users, SessionInv, Flags
<1>8. CASE Publishes
  BY <1>8 DEF Publishes, Building, polled, users, SessionInv, Flags
<1>9. CASE MainStep \/ RequestsStop
  <2>1. /\ UNCHANGED <<rebuilding, actualRateOk, mismatch, recovery, idle, counted,
                        reconfigure, simulated, ui, events>>
        /\ UNCHANGED stop \/ stop' = TRUE
    BY <1>9 DEF MainStep, RequestsStop, LeavesLoop, Joins, Disposes, InMain, settings, polled,
                controller
  <2>2. stop' \in BOOLEAN
    BY <2>1 DEF SessionInv, Flags
  <2> QED BY <2>1, <2>2 DEF SessionInv, Flags
<1>10. CASE RequestsBuffer \/ UiHandler
  <2>1. /\ UNCHANGED <<actualRateOk, mismatch, recovery, idle, counted, simulated, stop>>
        /\ UNCHANGED rebuilding \/ rebuilding' = TRUE
        /\ UNCHANGED reconfigure \/ reconfigure' = TRUE
        /\ ui' \in {"idle", "requesting", "staged", "marked"}
        /\ UNCHANGED events \/ Disturbs
    BY <1>10 DEF RequestsBuffer, UiHandler, StagesBuffer, IgnoresRequest, MarksReconfiguring,
                 SetsFlag, InUi, polled, controller
  <2>2. events' \in 0..MaxEvents
    BY <2>1 DEF Disturbs, SessionInv, Flags
  <2>3. rebuilding' \in BOOLEAN
    BY <2>1 DEF SessionInv, Flags
  <2>4. reconfigure' \in BOOLEAN
    BY <2>1 DEF SessionInv, Flags
  <2> QED BY <2>1, <2>2, <2>3, <2>4 DEF SessionInv, Flags
<1>11. CASE Called \/ Returned \/ Happens \/ Returns
  <2>1. /\ UNCHANGED <<rebuilding, actualRateOk, mismatch, recovery, idle, simulated,
                        reconfigure, ui, stop>>
        /\ UNCHANGED counted \/ counted' = TRUE
        /\ UNCHANGED events \/ Disturbs
    BY <1>11 DEF Called, Returned, Happens, Returns, Outside, settings, polled,
                 controller, users
  <2>2. events' \in 0..MaxEvents
    BY <2>1 DEF Disturbs, SessionInv, Flags
  <2>3. counted' \in BOOLEAN
    BY <2>1 DEF SessionInv, Flags
  <2> QED BY <2>1, <2>2, <2>3 DEF SessionInv, Flags
<1>12. CASE UNCHANGED vars
  BY <1>12 DEF vars, settings, polled, controller, users, SessionInv, Flags
<1> QED BY <1>2, <1>3, <1>4, <1>5, <1>6, <1>7, <1>8, <1>9, <1>10, <1>11, <1>12
        DEF Next, WatchdogStep

----------------------------------------------------------------------------
(* Theorems                                                                *)

LEMMA Inductive == Spec => []Inv
<1>1. Init => Inv
  BY InitInv
<1>2. Inv /\ [Next]_vars => Inv'
  BY NextInv
<1> QED BY <1>1, <1>2, PTL DEF Spec

\* However often the device is lost and whoever tears the stream down: while the driver's
\* callback runs on a stream, nobody has freed it.  StopEnds waits for the callback, and
\* a teardown without it only begins when the driver has long been silent.
THEOREM CallbacksAreSafe == Spec => []NoCallbackOnFreed
<1>1. Inv => NoCallbackOnFreed
  BY TypedStreams DEF Inv, Types, Lives, NoCallbackOnFreed
<1> QED BY <1>1, Inductive, PTL

\* The fade-out of a shutdown or of a simulated loss has come to silence when the
\* driver of a stream that was at full level is told to stop.
THEOREM ShutdownsAreSilent == Spec => []GracefulStopIsSilent
<1>1. Inv => GracefulStopIsSilent
  BY DEF Inv, Fades, FadesOut, Ends, GracefulStopIsSilent
<1> QED BY <1>1, Inductive, PTL

\* There is never a second live stream: the session and the threads have one between
\* them, and the driver's static pointer is to it or to none.
OneStream ==
  /\ \A s, z \in Streams : stream[s].mem = "live" /\ stream[z].mem = "live" => s = z
  /\ activeDriver # 0 => stream[activeDriver].mem = "live"

THEOREM OneStreamAtATime == Spec => []OneStream
<1>1. ASSUME Inv PROVE \E h : Held \subseteq {h}
  <2>1. CASE \E t \in Threads : taken[t] # 0
    <3>1. PICK t \in Threads : taken[t] # 0
      BY <2>1
    <3>2. pc[t] \in Tearing \union Opening
      BY <1>1, <3>1 DEF Inv, Roles, WatchdogRole, MainRole, Threads
    <3> QED BY <1>1, <3>2, Alone DEF Inv
  <2>2. CASE ~\E t \in Threads : taken[t] # 0
    BY <2>2 DEF Held, Threads
  <2> QED BY <2>1, <2>2
<1>2. Inv => OneStream
  BY <1>1, TypedStreams DEF Inv, Types, Lives, OneStream
<1> QED BY <1>2, Inductive, PTL

LEMMA SessionInductive == Spec => []SessionInv
<1>1. SessionInv /\ [Next]_vars => SessionInv'
  BY NextInv, NextFitted, NextRecorded, NextFlags DEF SessionInv
<1> QED BY <1>1, InitSession, PTL DEF Spec

\* Every variable of the session has its type, through losses, rebuilds and requests for
\* buffers: in particular m_publishedBuffer is one of the driver's sizes.
THEOREM SessionTypeCorrect == Spec => []TypeOK
<1>1. SessionInv => TypeOK
  BY DEF SessionInv, Inv, Types, Recorded, Flags, TypeOK
<1> QED BY <1>1, SessionInductive, PTL

\* "engine preallocates for kMaxBlock; never exceed it" (daily_demo_main.cpp:2379): whatever
\* size the panel is set to and whoever asks for which, the callback never runs with a
\* larger block, and none is on record as running or asked for.
NoOversizedBlock ==
  /\ callback # 0 => stream[callback].buffer <= MaxBlock
  /\ published <= MaxBlock /\ requested <= MaxBlock

THEOREM BlocksFitTheEngine == Spec => []NoOversizedBlock
<1>1. SessionInv => NoOversizedBlock
  BY DEF SessionInv, Fitted, Sized, Usable, Recorded, NoOversizedBlock
<1> QED BY <1>1, SessionInductive, PTL
=============================================================================
