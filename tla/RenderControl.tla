---------------------------- MODULE RenderControl ----------------------------
(***************************************************************************)
(* What the user sets of the sound on its way to the audio callback: the   *)
(* input that feeds the virtual microphone, the local monitor of each      *)
(* input and the output state.  Handlers on the main thread change the     *)
(* program's own state and publish it, under the session's mutex, to the   *)
(* adapter of the stream in use; the callback reads the adapter's          *)
(* snapshots, one sequence lock each, at the start of every block.  A      *)
(* stream that is lost is rebuilt by the watchdog, which wires a new       *)
(* adapter from the program's state while the handlers go on.              *)
(*                                                                         *)
(* Gains are on or off, and a ramp is its target.                          *)
(***************************************************************************)
EXTENDS Integers, Sequences

CONSTANTS
  Modes,        \* the values dualMode may have
  MaxEdits,     \* bound: what the user changes
  MaxLosses     \* bound: streams that are lost or cannot be built

ASSUME RenderAssumption ==
  /\ Modes \subseteq BOOLEAN /\ MaxEdits \in Nat /\ MaxLosses \in Nat

First == "channel 0"
Second == "channel 1"
Slots == {First, Second}                  \* kMaxInputChannels
Config == "config"
Snapshots == Slots \union {Config}
Items == {"source", "muted"} \union Slots   \* a slot: its local monitor

VARIABLES
  dual,         \* dualMode: two inputs, each with its own chain
  user,         \* the program's own state: prefs.virtualMicSource, whether a
                \* channel's local send has a gain, and monitorMuted, for the
                \* whole of the output state, which is published in one
  rev,          \* localMonCh0Rev and localMonCh1Rev
  edit,         \* the handler at work: what it changes and its steps to come
  edits,        \* how many changes there were
  stream,       \* how far the watchdog is with the stream, and the streams lost
  wiring,       \* wireAdapter's steps to come, the input it has read and the
                \* sends it has read of a channel
  seq, mem,     \* m_seq and m_value of the adapter's snapshots
  last,         \* the value last published in each, complete or not yet
  written,      \* the fields that the writer has copied
  cb,           \* the callback: the snapshot it reads, the number it read
                \* first, what it copies to, and the fields it has copied
  applied,      \* what was last applied of each snapshot: the targets of the ramps
  racing,       \* history: what was last changed while a stream was being built
  sources       \* history: virtualMicSource since the adapter was made

userVars == <<dual, user, rev, edit, edits, racing, sources>>
streamVars == <<stream, wiring>>
lockVars == <<seq, mem, last, written>>
callbackVars == <<cb, applied>>
vars == <<userVars, streamVars, lockVars, callbackVars>>

----------------------------------------------------------------------------
(* SeqLockSnapshot *)

Fields(s) == IF s = Config THEN {"muted", "revision"}
             ELSE {"virtualMic", "local", "revision"}

\* An assignment copies the fields one after the other, in the same order at
\* either end, the revision last.
Copyable(s, done) ==
  {f \in Fields(s) \ done :
     /\ f = "revision" => done = Fields(s) \ {"revision"}
     /\ f = "local" => "virtualMic" \in done}

\* What a fresh adapter's snapshots hold.
Default(s) ==
  IF s = Config THEN [muted |-> FALSE, revision |-> 0]
  ELSE [virtualMic |-> FALSE, local |-> FALSE, revision |-> 0]

Odd(n) == n % 2 = 1

BadLocked(s) == FALSE

\* tryRead: an odd number is that of a publication going on ...
Locked(s) == Odd(seq[s])

\* ... and the number has to be the same after the copy.
Stable(s) == seq[s] = cb.seq

----------------------------------------------------------------------------
(* The adapter *)

\* attach: slot 0 feeds the virtual microphone until a snapshot says otherwise.
Attached(s) ==
  IF s = Config THEN Default(s)
  ELSE [Default(s) EXCEPT !.virtualMic = (s = First)]

\* virtualMicSendsFor: one channel is enabled; an input that is alone always is.
SendsOf(source, s) == s = IF dual THEN source ELSE First
Sends(s) == SendsOf(user.source, s)

ChannelSends(source, s) == [virtualMic |-> SendsOf(source, s), local |-> user.local[s]]
OutputState(revision) == [muted |-> user.muted, revision |-> revision]

\* wireAdapter publishes the channels only when there are two.
WiringSteps == IF dual THEN <<First, Second, Config>> ELSE <<Config>>

----------------------------------------------------------------------------
(* At the beginning the first stream is in place, not yet heard by a block. *)

NotReading == -1
NoEdit == [item |-> "muted", todo |-> << >>]
Reading(s, n) == [at |-> s, seq |-> n, copy |-> Default(s), done |-> {}]
With(at) == [at |-> at, seq |-> NotReading, copy |-> << >>, done |-> {}]
Idle == With("idle")

Init ==
  /\ dual \in Modes
  /\ user = [source |-> First, local |-> [s \in Slots |-> FALSE],
             muted |-> TRUE]
  /\ rev = [s \in Slots |-> 1]
  /\ edit = NoEdit /\ edits = 0
  /\ stream = [phase |-> "live", lost |-> 0]
  /\ wiring = [todo |-> << >>, source |-> First, read |-> << >>]
  /\ last = [s \in Snapshots |->
               IF s = Config THEN OutputState(1)
               ELSE IF dual THEN [virtualMic |-> Sends(s), local |-> user.local[s], revision |-> 1]
               ELSE Default(s)]
  /\ mem = last
  /\ seq = [s \in Snapshots |-> IF last[s] = Default(s) THEN 0 ELSE 2]
  /\ written = {}
  /\ cb = Idle
  /\ applied = [s \in Snapshots |-> Attached(s)]
  /\ racing = {} /\ sources = {First}

----------------------------------------------------------------------------
(* The user's handlers *)

Building == stream.phase \in {"wiring", "started"}

\* The program's own state first.
Change(item, value, steps) ==
  /\ edit.todo = << >> /\ edits < MaxEdits
  /\ user' = value
  /\ edit' = [item |-> item, todo |-> steps]
  /\ edits' = edits + 1
  /\ racing' = IF Building THEN racing \union {item} ELSE racing \ {item}
  /\ UNCHANGED <<dual, rev, streamVars, lockVars, callbackVars>>

\* applyVirtualMicSource; a second input that is not there falls back to the first.
SelectSource(source) ==
  LET effective == IF dual THEN source ELSE First IN
  /\ Change("source", [user EXCEPT !.source = effective],
            IF dual THEN <<"revisions", First, Second>> ELSE <<"revisions", First>>)
  /\ sources' = sources \union {effective}

\* setLocalEnable, setLocalMute, setLocalGainDb and their keys.
EditLocal(s) ==
  /\ s = Second => dual
  /\ Change(s, [user EXCEPT !.local[s] = ~@], <<"revisions", s>>)
  /\ UNCHANGED sources

\* toggleLocalMonitor, toggleOutputMono and the panel's two switches.
EditOutput ==
  /\ Change("muted", [user EXCEPT !.muted = ~@], <<Config>>)
  /\ UNCHANGED sources

Edits ==
  \/ \E source \in Slots : SelectSource(source)
  \/ \E s \in Slots : EditLocal(s)
  \/ EditOutput

Step == Head(edit.todo)
Done == edit' = IF Len(edit.todo) = 1 THEN NoEdit ELSE [edit EXCEPT !.todo = Tail(@)]

BadBumped == {}

\* publishChannelLocalSend raises its channel's revision, a change of source both.
Bumped == IF edit.item = "source" THEN (IF dual THEN Slots ELSE {First}) ELSE {edit.item}

RaiseRevisions ==
  /\ edit.todo # << >> /\ Step = "revisions"
  /\ rev' = [s \in Slots |-> IF s \in Bumped THEN rev[s] + 1 ELSE rev[s]]
  /\ Done
  /\ UNCHANGED <<dual, user, edits, racing, sources, streamVars, lockVars, callbackVars>>

\* The functions given to updateRenderConfig and updateChannelRuntime.
Mutated(value, s) ==
  IF s = Config THEN OutputState(value.revision + 1)
  ELSE IF edit.item = "source"
       THEN [value EXCEPT !.virtualMic = Sends(s), !.revision = rev[s]]
       ELSE [value EXCEPT !.local = user.local[s], !.revision = rev[s]]

BadUpdated(s) == Mutated(Default(s), s)

\* They are applied to what the adapter has.
Updated(s) == Mutated(mem[s], s)

AtUpdate(s) == edit.todo # << >> /\ Step = s

\* m_session is null: the update returns, and nobody repeats it.
UpdateIsLost(s) ==
  /\ AtUpdate(s) /\ stream.phase # "live"
  /\ Done
  /\ UNCHANGED <<dual, user, rev, edits, racing, sources, streamVars, lockVars,
                 callbackVars>>

\* The first increment.  From here to EndUpdate the session's mutex is held.
BeginUpdate(s) ==
  /\ AtUpdate(s) /\ stream.phase = "live"
  /\ ~Odd(seq[s])
  /\ seq' = [seq EXCEPT ![s] = @ + 1]
  /\ last' = [last EXCEPT ![s] = Updated(s)]
  /\ UNCHANGED <<userVars, streamVars, mem, written, callbackVars>>

CopyField(s, f) ==
  /\ AtUpdate(s) /\ Odd(seq[s]) /\ f \in Copyable(s, written)
  /\ mem' = [mem EXCEPT ![s] = [@ EXCEPT ![f] = last[s][f]]]
  /\ written' = written \union {f}
  /\ UNCHANGED <<userVars, streamVars, seq, last, callbackVars>>

EndUpdate(s) ==
  /\ AtUpdate(s) /\ Odd(seq[s]) /\ written = Fields(s)
  /\ seq' = [seq EXCEPT ![s] = @ + 1]
  /\ written' = {}
  /\ Done
  /\ UNCHANGED <<dual, user, rev, edits, racing, sources, streamVars, mem, last,
                 callbackVars>>

MutexHeld == \E s \in Snapshots : Odd(seq[s])

Handler ==
  \/ RaiseRevisions
  \/ \E s \in Snapshots :
       \/ UpdateIsLost(s) \/ BeginUpdate(s) \/ EndUpdate(s)
       \/ \E f \in Fields(s) : CopyField(s, f)

----------------------------------------------------------------------------
(* The watchdog's rebuild *)

\* The stream is lost, or an attempt to build it fails.
LoseStream ==
  /\ stream.phase \in {"wiring", "live"} /\ ~MutexHeld /\ cb.at = "idle"
  /\ stream.lost < MaxLosses
  /\ stream' = [phase |-> "none", lost |-> stream.lost + 1]
  /\ wiring' = [todo |-> << >>, source |-> First, read |-> << >>]
  /\ UNCHANGED <<userVars, lockVars, callbackVars>>

NewAdapter ==
  /\ stream.phase = "none"
  /\ stream' = [phase |-> "wiring", lost |-> stream.lost]
  /\ wiring' = [todo |-> WiringSteps, source |-> user.source, read |-> << >>]
  /\ seq' = [s \in Snapshots |-> 0]
  /\ mem' = [s \in Snapshots |-> Default(s)] /\ last' = mem'
  /\ applied' = [s \in Snapshots |-> Attached(s)]
  /\ sources' = {user.source}
  /\ UNCHANGED <<dual, user, rev, edit, edits, racing, written, cb>>

\* publishChannelSends reads the input once, for both channels, and of each channel its
\* local send and then its revision, which a handler may raise in between.
ReadSends(s) ==
  /\ stream.phase = "wiring" /\ wiring.todo # << >> /\ Head(wiring.todo) = s
  /\ wiring.read = << >>
  /\ LET source == IF s = First THEN user.source ELSE wiring.source IN
     wiring' = [todo |-> wiring.todo, source |-> source,
                read |-> <<ChannelSends(source, s)>>]
  /\ UNCHANGED <<userVars, stream, lockVars, callbackVars>>

\* A whole publication: nobody reads yet.
Wire(s, value) ==
  /\ seq' = [seq EXCEPT ![s] = @ + 2]
  /\ mem' = [mem EXCEPT ![s] = value]
  /\ last' = [last EXCEPT ![s] = value]
  /\ wiring' = [todo |-> Tail(wiring.todo), source |-> wiring.source, read |-> << >>]
  /\ UNCHANGED <<userVars, stream, written, callbackVars>>

PublishSends(s) ==
  /\ stream.phase = "wiring" /\ wiring.todo # << >> /\ Head(wiring.todo) = s
  /\ wiring.read # << >>
  /\ LET sends == wiring.read[1] IN
     Wire(s, [virtualMic |-> sends.virtualMic, local |-> sends.local,
              revision |-> rev[s]])

WireConfig ==
  /\ stream.phase = "wiring" /\ wiring.todo # << >> /\ Head(wiring.todo) = Config
  /\ Wire(Config, OutputState(1))

\* attach, requestFadeIn and the driver's start: the callback runs from here on.
Start ==
  /\ stream.phase = "wiring" /\ wiring.todo = << >>
  /\ stream' = [phase |-> "started", lost |-> stream.lost]
  /\ UNCHANGED <<userVars, wiring, lockVars, callbackVars>>

\* openAndStart puts the session into m_session.
SwapIn ==
  /\ stream.phase = "started"
  /\ stream' = [phase |-> "live", lost |-> stream.lost]
  /\ UNCHANGED <<userVars, wiring, lockVars, callbackVars>>

Watchdog ==
  \/ NewAdapter \/ WireConfig \/ Start \/ SwapIn
  \/ \E s \in Slots : ReadSends(s) \/ PublishSends(s)

----------------------------------------------------------------------------
(* The callback: processAsio *)

Following(s) == IF s = First THEN Second ELSE IF s = Second THEN Config ELSE "mix"

BeginBlock ==
  /\ stream.phase \in {"started", "live"} /\ cb.at = "idle"
  /\ cb' = With(First)
  /\ UNCHANGED <<userVars, streamVars, lockVars, applied>>

\* read() tries again for as long as the number is odd.
BeginRead(s) ==
  /\ cb.at = s /\ cb.seq = NotReading
  /\ ~Locked(s)
  /\ cb' = Reading(s, seq[s])
  /\ UNCHANGED <<userVars, streamVars, lockVars, applied>>

ReadField(s, f) ==
  /\ cb.at = s /\ cb.seq # NotReading /\ f \in Copyable(s, cb.done)
  /\ cb' = [at |-> s, seq |-> cb.seq, copy |-> [cb.copy EXCEPT ![f] = mem[s][f]],
            done |-> cb.done \union {f}]
  /\ UNCHANGED <<userVars, streamVars, lockVars, applied>>

Copied(s) == cb.at = s /\ cb.seq # NotReading /\ cb.done = Fields(s)

ReadAgain(s) ==
  /\ Copied(s) /\ ~Stable(s)
  /\ cb' = With(s)
  /\ UNCHANGED <<userVars, streamVars, lockVars, applied>>

\* A revision that was applied already changes nothing.
Apply(s) ==
  /\ Copied(s) /\ Stable(s)
  /\ applied' = IF cb.copy.revision # applied[s].revision
                THEN [applied EXCEPT ![s] = cb.copy] ELSE applied
  /\ cb' = With(Following(s))
  /\ UNCHANGED <<userVars, streamVars, lockVars>>

EndBlock ==
  /\ cb.at = "mix"
  /\ cb' = Idle
  /\ UNCHANGED <<userVars, streamVars, lockVars, applied>>

\* What a block mixes into the monitor: a channel that nobody published is on the
\* old path, which only the first has.
MonitorHas(s) ==
  IF applied[s].revision = 0 THEN s = First /\ ~applied[Config].muted
  ELSE applied[s].local

ReadSnapshots ==
  \E s \in Snapshots :
    \/ BeginRead(s) \/ ReadAgain(s) \/ Apply(s)
    \/ \E f \in Fields(s) : ReadField(s, f)

Callback == BeginBlock \/ ReadSnapshots \/ EndBlock

----------------------------------------------------------------------------
Next == Edits \/ Handler \/ LoseStream \/ Watchdog \/ Callback

\* A handler and a rebuild come to their end, and the driver calls back for as
\* long as the stream runs.  Nobody has to change anything or to unplug the device.
Fairness == WF_vars(Handler) /\ WF_vars(Watchdog) /\ WF_vars(Callback)

Spec == Init /\ [][Next]_vars /\ Fairness

----------------------------------------------------------------------------
(* Properties.                                                             *)

\* Type invariant of the render control.
TypeOK ==
  /\ dual \in Modes
  /\ user \in [source : Slots, local : [Slots -> BOOLEAN], muted : BOOLEAN]
  /\ rev \in [Slots -> Nat] /\ edits \in 0..MaxEdits
  /\ edit.item \in Items
  /\ stream \in [phase : {"none", "wiring", "started", "live"}, lost : 0..MaxLosses]
  /\ \A s \in Snapshots :
       /\ seq[s] \in Nat
       /\ DOMAIN mem[s] = Fields(s) /\ DOMAIN applied[s] = Fields(s)
  /\ cb.at \in Snapshots \union {"idle", "mix"} /\ cb.seq \in Nat \union {NotReading}
  /\ racing \subseteq Items /\ sources \subseteq Slots

\* A snapshot that the callback takes is the one that was published last, whole:
\* never fields of two publications, however the copies run into each other.
NoTornSnapshot ==
  \A s \in Snapshots : Copied(s) /\ Stable(s) => cb.copy = last[s]

\* The virtual microphone of a dual set-up carries no channel that was not selected
\* since the stream was built, and none that was selected all along is missing from
\* it: editing the monitor does not touch it, nor does a rebuild.
VirtualMicFollowsSource ==
  cb.at = "mix" /\ dual =>
    \A s \in Slots :
      IF applied[s].virtualMic THEN s \in sources ELSE sources # {s}

\* In the end the callback plays what the user sees, whatever streams were lost on
\* the way.  What is changed while the watchdog builds a stream may be lost, and
\* a single input's channel is not wired at all.
Heard(item) ==
  CASE item = "source" -> \A s \in Slots : applied[s].virtualMic = Sends(s)
    [] item \in Slots -> MonitorHas(item) = user.local[item]
    [] item = "muted" -> applied[Config].muted = user.muted

SettingsAreHeard ==
  \A item \in Items :
    <>[](item \in racing \/ (item \in Slots \union {"source"} /\ ~dual) \/ Heard(item))
=============================================================================
