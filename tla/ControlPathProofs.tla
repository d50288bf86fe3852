-------------------------- MODULE ControlPathProofs --------------------------
(***************************************************************************)
(* Proofs about RenderControl, for any number of changes and lost streams, *)
(* about ParameterEdits, for any size of the queue and of what a block     *)
(* takes and any number of edits and parameters, and about the ControlPath *)
(* that has both around one callback.                                      *)
(***************************************************************************)
EXTENDS ControlPath, FiniteSetTheorems, SequenceTheorems, TLAPS

----------------------------------------------------------------------------
(* RenderControl: its snapshots.                                           *)

\* The value of a snapshot: all of its fields, and nothing else.
IsValue(v, s) == v = [f \in Fields(s) |-> v[f]]

Memory ==
  /\ seq \in [Snapshots -> Nat]
  /\ mem = [s \in Snapshots |-> mem[s]] /\ last = [s \in Snapshots |-> last[s]]
  /\ \A s \in Snapshots : IsValue(mem[s], s) /\ IsValue(last[s], s)

\* The writer: while a number is odd its handler is at work in a live stream, and
\* what it has copied so far is of the value it publishes.
Writer ==
  /\ \A s \in Snapshots :
       IF Odd(seq[s])
       THEN /\ AtUpdate(s) /\ stream.phase = "live"
            /\ \A f \in written : mem[s][f] = last[s][f]
       ELSE mem[s] = last[s]
  /\ ~MutexHeld => written = {}

\* The reader: it began at an even number, and for as long as that is the number
\* what it has copied is of the value last published.
Reader ==
  /\ stream.phase \in {"none", "wiring"} => cb.at = "idle"
  /\ \A s \in Snapshots : cb.at = s /\ cb.seq # NotReading =>
       /\ cb.seq \in Nat /\ ~Odd(cb.seq) /\ cb.seq <= seq[s]
       /\ IsValue(cb.copy, s)
       /\ Stable(s) => \A f \in cb.done : cb.copy[f] = last[s][f]

Inv == Memory /\ Writer /\ Reader

----------------------------------------------------------------------------
\* What holds of odd and even numbers.
LEMMA Parity ==
  ASSUME NEW n \in Nat
  PROVE  /\ Odd(n + 1) <=> ~Odd(n)
         /\ Odd(n + 2) <=> Odd(n)
         /\ ~Odd(0)
BY DEF Odd

\* The snapshots are neither of the callback's other places, nor of the other steps.
LEMMA Names ==
  ASSUME NEW s \in Snapshots
  PROVE  s # "idle" /\ s # "mix" /\ s # "revisions"
BY DEF Snapshots, Slots, First, Second, Config

\* Two values are equal if their fields are.
LEMMA SameFields ==
  ASSUME NEW s, NEW v, NEW w, IsValue(v, s), IsValue(w, s),
         \A f \in Fields(s) : v[f] = w[f]
  PROVE  v = w
BY DEF IsValue

\* Copying a field of a value leaves a value.
LEMMA CopiedField ==
  ASSUME NEW s, NEW v, IsValue(v, s), NEW f \in Fields(s), NEW x
  PROVE  /\ IsValue([v EXCEPT ![f] = x], s)
         /\ [v EXCEPT ![f] = x][f] = x
         /\ \A g \in Fields(s) \ {f} : [v EXCEPT ![f] = x][g] = v[g]
BY DEF IsValue

\* The records that the program publishes are values.
LEMMA Records ==
  ASSUME NEW a, NEW b, NEW c
  PROVE  /\ IsValue([muted |-> a, revision |-> b], Config)
         /\ \A s \in Slots : IsValue([virtualMic |-> a, local |-> b, revision |-> c], s)
<1>1. Fields(Config) = {"muted", "revision"}
  BY DEF Fields
<1>2. \A s \in Slots : Fields(s) = {"virtualMic", "local", "revision"}
  BY DEF Fields, Slots, First, Second, Config
<1> QED BY <1>1, <1>2 DEF IsValue

\* So are those of a fresh adapter.
LEMMA Defaults == \A s \in Snapshots : IsValue(Default(s), s)
<1>1. IsValue(Default(Config), Config)
  BY Records DEF Default
<1>2. \A s \in Slots : s # Config
  BY DEF Slots, First, Second, Config
<1>3. \A s \in Slots : IsValue(Default(s), s)
  BY <1>2, Records DEF Default
<1> QED BY <1>1, <1>3 DEF Snapshots

\* An update makes a value of a value.
LEMMA Updates ==
  ASSUME NEW s \in Snapshots, IsValue(mem[s], s)
  PROVE  IsValue(Updated(s), s)
<1>1. CASE s = Config
  BY <1>1, Records DEF Updated, Mutated, OutputState
<1>2. CASE s # Config
  <2>1. {"virtualMic", "local", "revision"} = Fields(s)
    BY <1>2 DEF Fields
  <2>2. \A v, f, x : IsValue(v, s) /\ f \in Fields(s) => IsValue([v EXCEPT ![f] = x], s)
    BY CopiedField
  <2>3. CASE edit.item = "source"
    BY <1>2, <2>1, <2>2, <2>3 DEF Updated, Mutated
  <2>4. CASE edit.item # "source"
    BY <1>2, <2>1, <2>2, <2>4 DEF Updated, Mutated
  <2> QED BY <2>3, <2>4
<1> QED BY <1>1, <1>2

----------------------------------------------------------------------------
\* The first stream's snapshots are published, and nobody is at work on them.
LEMMA InitInv == Init => Inv
<1> SUFFICES ASSUME Init PROVE Inv
  OBVIOUS
<1>1. \A s \in Snapshots : last[s] = (IF s = Config THEN OutputState(1)
               ELSE IF dual THEN [virtualMic |-> Sends(s), local |-> user.local[s], revision |-> 1]
               ELSE Default(s))
  BY DEF Init
<1>2. \A s \in Snapshots : IsValue(last[s], s)
  <2>1. IsValue(last[Config], Config)
    BY <1>1, Records DEF OutputState, Snapshots
  <2>2. \A s \in Slots : s # Config
    BY DEF Slots, First, Second, Config
  <2>3. \A s \in Slots : IsValue(last[s], s)
    BY <1>1, <2>2, Records, Defaults DEF Snapshots
  <2> QED BY <2>1, <2>3 DEF Snapshots
<1>3. seq \in [Snapshots -> Nat] /\ \A s \in Snapshots : ~Odd(seq[s])
  <2>1. seq = [s \in Snapshots |-> IF last[s] = Default(s) THEN 0 ELSE 2]
    BY DEF Init
  <2>2. seq \in [Snapshots -> {0, 2}]
    BY <2>1
  <2> QED BY <2>2, \A n \in {0, 2} : n \in Nat /\ n % 2 # 1 DEF Odd
<1>4. Memory
  BY <1>2, <1>3 DEF Init, Memory
<1>5. Writer
  BY <1>3 DEF Init, Writer
<1>6. Reader
  BY Names DEF Init, Reader, Idle, With
<1> QED BY <1>4, <1>5, <1>6 DEF Inv

\* A step that leaves the snapshots, the callback and the stream alone, and of the
\* handler at most takes one that is not at an update.
LEMMA QuietStep ==
  ASSUME Inv, UNCHANGED <<lockVars, callbackVars>>,
         stream'.phase = stream.phase,
         \A s \in Snapshots : Odd(seq[s]) => UNCHANGED edit
  PROVE  Inv'
<1>1. Memory'
  BY DEF Inv, Memory, lockVars, IsValue
<1>2. Writer'
  BY DEF Inv, Writer, lockVars, AtUpdate, Step, MutexHeld
<1>3. Reader'
  BY DEF Inv, Reader, lockVars, callbackVars, Stable, IsValue
<1> QED BY <1>1, <1>2, <1>3 DEF Inv

\* No change begins while a handler is at work.
LEMMA EditsInv == Inv /\ Edits => Inv'
<1> SUFFICES ASSUME Inv, Edits PROVE Inv'
  OBVIOUS
<1>1. edit.todo = << >> /\ UNCHANGED <<streamVars, lockVars, callbackVars>>
  BY DEF Edits, SelectSource, EditLocal, EditOutput, Change
<1>2. \A s \in Snapshots : ~Odd(seq[s])
  BY <1>1 DEF Inv, Writer, AtUpdate
<1> QED BY <1>1, <1>2, QuietStep DEF streamVars

\* A handler that raises revisions publishes nothing.
LEMMA RaiseInv == Inv /\ RaiseRevisions => Inv'
<1> SUFFICES ASSUME Inv, RaiseRevisions PROVE Inv'
  OBVIOUS
<1>1. \A s \in Snapshots : ~Odd(seq[s])
  BY Names DEF RaiseRevisions, Inv, Writer, AtUpdate
<1> QED BY <1>1, QuietStep DEF RaiseRevisions, streamVars

\* Nor does one that finds no session.
LEMMA LostInv == ASSUME Inv, NEW s \in Snapshots, UpdateIsLost(s) PROVE Inv'
<1>1. \A t \in Snapshots : ~Odd(seq[t])
  BY DEF UpdateIsLost, Inv, Writer
<1> QED BY <1>1, QuietStep DEF UpdateIsLost, streamVars

\* The first increment: a reader at work will not take what it copies.
LEMMA BeginInv == ASSUME Inv, NEW s \in Snapshots, BeginUpdate(s) PROVE Inv'
<1>1. /\ AtUpdate(s) /\ stream.phase = "live" /\ ~Odd(seq[s])
      /\ seq' = [seq EXCEPT ![s] = @ + 1] /\ last' = [last EXCEPT ![s] = Updated(s)]
      /\ mem' = mem /\ written' = written /\ edit' = edit /\ stream' = stream
      /\ cb' = cb
  BY DEF BeginUpdate, userVars, streamVars, callbackVars
<1>2. seq \in [Snapshots -> Nat] /\ seq[s] \in Nat
  BY DEF Inv, Memory
<1>3. \A t \in Snapshots : t # s => seq'[t] = seq[t] /\ last'[t] = last[t]
  BY <1>1, <1>2 DEF Inv, Memory
<1>4. seq'[s] = seq[s] + 1 /\ Odd(seq'[s]) /\ last'[s] = Updated(s)
  BY <1>1, <1>2, Parity DEF Inv, Memory
<1>5. \A t \in Snapshots : ~Odd(seq[t])
  BY <1>1 DEF Inv, Writer, AtUpdate
<1>6. written = {}
  BY <1>5 DEF Inv, Writer, MutexHeld
<1>7. Memory'
  <2>1. seq' \in [Snapshots -> Nat]
    BY <1>1, <1>2
  <2>2. \A t \in Snapshots : IsValue(last'[t], t)
    BY <1>3, <1>4, Updates DEF Inv, Memory
  <2>3. last' = [t \in Snapshots |-> last'[t]]
    BY <1>1 DEF Inv, Memory
  <2> QED BY <1>1, <2>1, <2>2, <2>3 DEF Inv, Memory, IsValue
<1>8. Writer'
  <2>1. ASSUME NEW t \in Snapshots, t # s PROVE ~Odd(seq'[t]) /\ mem'[t] = last'[t]
    BY <2>1, <1>1, <1>3, <1>5 DEF Inv, Writer
  <2>2. AtUpdate(s)' /\ stream'.phase = "live"
    BY <1>1 DEF AtUpdate, Step
  <2>3. MutexHeld'
    BY <1>4 DEF MutexHeld
  <2> QED BY <2>1, <2>2, <2>3, <1>1, <1>4, <1>6 DEF Writer, Odd
<1>9. Reader'
  <2>1. stream'.phase \in {"none", "wiring"} => cb'.at = "idle"
    BY <1>1 DEF Inv, Reader
  <2>2. ASSUME NEW t \in Snapshots, cb.at = t, cb.seq # NotReading
        PROVE  /\ cb.seq \in Nat /\ ~Odd(cb.seq) /\ cb.seq <= seq'[t] /\ IsValue(cb.copy, t)
               /\ seq'[t] = cb.seq => \A f \in cb.done : cb.copy[f] = last'[t][f]
    <3>1. /\ cb.seq \in Nat /\ ~Odd(cb.seq) /\ cb.seq <= seq[t] /\ IsValue(cb.copy, t)
          /\ seq[t] = cb.seq => \A f \in cb.done : cb.copy[f] = last[t][f]
      BY <2>2 DEF Inv, Reader, Stable
    <3>2. CASE t = s
      BY <3>1, <3>2, <1>2, <1>4
    <3>3. CASE t # s
      BY <3>1, <3>3, <1>3
    <3> QED BY <3>2, <3>3
  <2> QED BY <1>1, <2>1, <2>2 DEF Reader, Stable, IsValue
<1> QED BY <1>7, <1>8, <1>9 DEF Inv

\* The copy of a field: the writer has one more in place.
LEMMA CopyInv ==
  ASSUME Inv, NEW s \in Snapshots, NEW f \in Fields(s), CopyField(s, f) PROVE Inv'
<1>1. /\ AtUpdate(s) /\ Odd(seq[s])
      /\ mem' = [mem EXCEPT ![s] = [@ EXCEPT ![f] = last[s][f]]]
      /\ written' = written \union {f}
      /\ seq' = seq /\ last' = last /\ edit' = edit /\ stream' = stream /\ cb' = cb
  BY DEF CopyField, userVars, streamVars, callbackVars
<1>2. mem'[s] = [mem[s] EXCEPT ![f] = last[s][f]]
  BY <1>1 DEF Inv, Memory
<1>3. \A t \in Snapshots : t # s => mem'[t] = mem[t]
  BY <1>1 DEF Inv, Memory
<1>4. /\ IsValue(mem'[s], s) /\ mem'[s][f] = last[s][f]
      /\ \A g \in Fields(s) \ {f} : mem'[s][g] = mem[s][g]
  <2>1. IsValue(mem[s], s)
    BY DEF Inv, Memory
  <2>2. /\ IsValue([mem[s] EXCEPT ![f] = last[s][f]], s)
        /\ [mem[s] EXCEPT ![f] = last[s][f]][f] = last[s][f]
        /\ \A g \in Fields(s) \ {f} : [mem[s] EXCEPT ![f] = last[s][f]][g] = mem[s][g]
    BY <2>1, CopiedField
  <2> QED BY <1>2, <2>2
<1>5. \A t \in Snapshots : t # s => ~Odd(seq[t])
  BY <1>1 DEF Inv, Writer, AtUpdate
<1>6. Memory'
  <2>1. mem' = [t \in Snapshots |-> mem'[t]]
    BY <1>1 DEF Inv, Memory
  <2> QED BY <1>1, <1>3, <1>4, <2>1 DEF Inv, Memory, IsValue
<1>7. Writer'
  <2>1. \A g \in written' : mem'[s][g] = last[s][g]
    <3>1. ASSUME NEW g \in written, g # f PROVE mem'[s][g] = mem[s][g]
      BY <3>1, <1>2 DEF Inv, Memory, IsValue
    <3>2. \A g \in written : mem[s][g] = last[s][g]
      BY <1>1 DEF Inv, Writer
    <3> QED BY <1>1, <1>4, <3>1, <3>2
  <2>2. AtUpdate(s)' /\ stream'.phase = "live"
    BY <1>1 DEF AtUpdate, Step, Inv, Writer
  <2>3. MutexHeld'
    BY <1>1 DEF MutexHeld, Odd
  <2>4. \A t \in Snapshots : t # s => mem'[t] = last'[t] /\ ~Odd(seq'[t])
    BY <1>1, <1>3, <1>5 DEF Inv, Writer
  <2> QED BY <2>1, <2>2, <2>3, <2>4, <1>1 DEF Writer, Odd
<1>8. Reader'
  BY <1>1 DEF Inv, Reader, Stable, IsValue
<1> QED BY <1>6, <1>7, <1>8 DEF Inv

\* The second increment: all fields are in place.
LEMMA EndInv == ASSUME Inv, NEW s \in Snapshots, EndUpdate(s) PROVE Inv'
<1>1. /\ AtUpdate(s) /\ Odd(seq[s]) /\ written = Fields(s)
      /\ seq' = [seq EXCEPT ![s] = @ + 1] /\ written' = {}
      /\ mem' = mem /\ last' = last /\ stream' = stream /\ cb' = cb
  BY DEF EndUpdate, streamVars, callbackVars
<1>2. seq \in [Snapshots -> Nat] /\ seq[s] \in Nat
  BY DEF Inv, Memory
<1>3. \A t \in Snapshots : t # s => seq'[t] = seq[t] /\ ~Odd(seq[t])
  BY <1>1, <1>2 DEF Inv, Writer, AtUpdate
<1>4. seq'[s] = seq[s] + 1 /\ ~Odd(seq'[s])
  BY <1>1, <1>2, Parity
<1>5. mem[s] = last[s]
  BY <1>1, SameFields DEF Inv, Memory, Writer
<1>6. Memory'
  BY <1>1, <1>2 DEF Inv, Memory, IsValue
<1>7. Writer'
  <2>1. \A t \in Snapshots : ~Odd(seq'[t]) /\ mem'[t] = last'[t]
    BY <1>1, <1>3, <1>4, <1>5 DEF Inv, Writer
  <2> QED BY <2>1, <1>1 DEF Writer, Odd
<1>8. Reader'
  <2>1. stream'.phase \in {"none", "wiring"} => cb'.at = "idle"
    BY <1>1 DEF Inv, Reader
  <2>2. ASSUME NEW t \in Snapshots, cb.at = t, cb.seq # NotReading
        PROVE  /\ cb.seq \in Nat /\ ~Odd(cb.seq) /\ cb.seq <= seq'[t] /\ IsValue(cb.copy, t)
               /\ seq'[t] = cb.seq => \A f \in cb.done : cb.copy[f] = last[t][f]
    <3>1. /\ cb.seq \in Nat /\ ~Odd(cb.seq) /\ cb.seq <= seq[t] /\ IsValue(cb.copy, t)
          /\ seq[t] = cb.seq => \A f \in cb.done : cb.copy[f] = last[t][f]
      BY <2>2 DEF Inv, Reader, Stable
    <3>2. CASE t = s
      BY <3>1, <3>2, <1>1, <1>2, <1>4
    <3>3. CASE t # s
      BY <3>1, <3>3, <1>3
    <3> QED BY <3>2, <3>3
  <2> QED BY <1>1, <2>1, <2>2 DEF Reader, Stable, IsValue
<1> QED BY <1>6, <1>7, <1>8 DEF Inv

\* What a handler does.
LEMMA HandlerInv == Inv /\ Handler => Inv'
BY RaiseInv, LostInv, BeginInv, CopyInv, EndInv DEF Handler

----------------------------------------------------------------------------
\* The stream is lost between two blocks and two updates.
LEMMA LoseInv == Inv /\ LoseStream => Inv'
<1> SUFFICES ASSUME Inv, LoseStream PROVE Inv'
  OBVIOUS
<1>1. /\ \A s \in Snapshots : ~Odd(seq[s])
      /\ cb.at = "idle" /\ seq' = seq /\ mem' = mem /\ last' = last
      /\ written' = written /\ edit' = edit /\ cb' = cb
  BY DEF LoseStream, MutexHeld, userVars, lockVars, callbackVars
<1>2. Memory'
  BY <1>1 DEF Inv, Memory, IsValue
<1>3. Writer'
  BY <1>1 DEF Inv, Writer, Odd, MutexHeld
<1>4. Reader'
  BY <1>1, Names DEF Reader
<1> QED BY <1>2, <1>3, <1>4 DEF Inv

\* A new adapter's snapshots are even and hold what they held from the beginning.
LEMMA NewAdapterInv == Inv /\ NewAdapter => Inv'
<1> SUFFICES ASSUME Inv, NewAdapter PROVE Inv'
  OBVIOUS
<1>1. /\ stream.phase = "none" /\ seq' = [s \in Snapshots |-> 0]
      /\ mem' = [s \in Snapshots |-> Default(s)] /\ last' = mem'
      /\ written' = written /\ cb' = cb
  BY DEF NewAdapter
<1>2. cb.at = "idle" /\ written = {}
  BY <1>1 DEF Inv, Reader, Writer, MutexHeld
<1>3. \A s \in Snapshots : ~Odd(seq'[s])
  BY <1>1, Parity
<1>4. Memory'
  BY <1>1, Defaults DEF Memory, IsValue
<1>5. Writer'
  BY <1>1, <1>2, <1>3 DEF Writer, Odd
<1>6. Reader'
  BY <1>1, <1>2, Names DEF Reader
<1> QED BY <1>4, <1>5, <1>6 DEF Inv

\* The wiring publishes whole values while nobody reads.
LEMMA WireInv ==
  ASSUME Inv, stream.phase = "wiring",
         NEW s \in Snapshots, NEW v, IsValue(v, s), Wire(s, v)
  PROVE  Inv'
<1>1. /\ seq' = [seq EXCEPT ![s] = @ + 2] /\ mem' = [mem EXCEPT ![s] = v]
      /\ last' = [last EXCEPT ![s] = v] /\ stream' = stream
      /\ written' = written /\ cb' = cb
  BY DEF Wire, callbackVars
<1>2. seq \in [Snapshots -> Nat] /\ \A t \in Snapshots : ~Odd(seq[t])
  BY DEF Inv, Memory, Writer
<1>3. cb.at = "idle" /\ written = {}
  BY <1>2 DEF Inv, Reader, Writer, MutexHeld
<1>4. \A t \in Snapshots : seq'[t] \in Nat /\ ~Odd(seq'[t])
  BY <1>1, <1>2, Parity
<1>5. mem'[s] = v /\ last'[s] = v
  BY <1>1 DEF Inv, Memory
<1>6. \A t \in Snapshots : t # s => mem'[t] = mem[t] /\ last'[t] = last[t]
  BY <1>1 DEF Inv, Memory
<1>7. Memory'
  <2>1. seq' \in [Snapshots -> Nat]
    BY <1>1, <1>2
  <2>2. mem' = [t \in Snapshots |-> mem'[t]] /\ last' = [t \in Snapshots |-> last'[t]]
    BY <1>1 DEF Inv, Memory
  <2> QED BY <2>1, <2>2, <1>5, <1>6 DEF Inv, Memory, IsValue
<1>8. Writer'
  BY <1>1, <1>2, <1>3, <1>4, <1>5, <1>6 DEF Inv, Writer, Odd
<1>9. Reader'
  BY <1>1, <1>3, Names DEF Reader
<1> QED BY <1>7, <1>8, <1>9 DEF Inv

\* What the watchdog does.
LEMMA WatchdogInv == Inv /\ Watchdog => Inv'
<1> SUFFICES ASSUME Inv, Watchdog PROVE Inv'
  OBVIOUS
<1>1. CASE NewAdapter
  BY <1>1, NewAdapterInv
<1>2. CASE WireConfig
  BY <1>2, WireInv, Records DEF WireConfig, OutputState, Snapshots
<1>3. ASSUME stream' = [phase |-> "started", lost |-> stream.lost]
             \/ stream' = [phase |-> "live", lost |-> stream.lost],
             UNCHANGED <<lockVars, callbackVars, edit>>,
             stream.phase \in {"wiring", "started"}
      PROVE  Inv'
  <2>1. /\ seq' = seq /\ mem' = mem /\ last' = last /\ written' = written
        /\ edit' = edit /\ cb' = cb /\ stream'.phase \in {"started", "live"}
    BY <1>3 DEF lockVars, callbackVars
  <2>2. \A s \in Snapshots : ~Odd(seq[s])
    BY <1>3 DEF Inv, Writer
  <2>3. Memory'
    BY <2>1 DEF Inv, Memory, IsValue
  <2>4. Writer'
    BY <2>1, <2>2 DEF Inv, Writer, Odd, MutexHeld
  <2>5. Reader'
    BY <2>1 DEF Inv, Reader, Stable, IsValue
  <2> QED BY <2>3, <2>4, <2>5 DEF Inv
<1>4. CASE Start
  BY <1>3, <1>4 DEF Start, userVars
<1>5. CASE SwapIn
  BY <1>3, <1>5 DEF SwapIn, userVars
<1>6. ASSUME NEW s \in Slots, ReadSends(s) PROVE Inv'
  BY <1>6, QuietStep DEF ReadSends, userVars
<1>7. ASSUME NEW s \in Slots, PublishSends(s) PROVE Inv'
  BY <1>7, WireInv, Records DEF PublishSends, Snapshots
<1> QED BY <1>1, <1>2, <1>4, <1>5, <1>6, <1>7 DEF Watchdog

----------------------------------------------------------------------------
\* A step of the callback changes neither the snapshots nor what the writer does.
LEMMA ReaderStep ==
  ASSUME Inv, UNCHANGED <<userVars, streamVars, lockVars>>, Reader' PROVE Inv'
<1>1. Memory'
  BY DEF Inv, Memory, lockVars, IsValue
<1>2. Writer'
  BY DEF Inv, Writer, lockVars, userVars, streamVars, AtUpdate, Step, MutexHeld
<1> QED BY <1>1, <1>2 DEF Inv

\* The callback goes on to another place, with nothing read yet.
LEMMA GoesOn ==
  ASSUME Inv, UNCHANGED <<userVars, streamVars, lockVars>>, NEW place, cb' = With(place),
         stream.phase \notin {"none", "wiring"} \/ place = "idle"
  PROVE  Inv'
<1>1. Reader'
  BY DEF Reader, With, streamVars
<1> QED BY <1>1, ReaderStep

\* What the callback does.
LEMMA CallbackInv == Inv /\ Callback => Inv'
<1> SUFFICES ASSUME Inv, Callback PROVE Inv'
  OBVIOUS
<1>1. CASE BeginBlock
  BY <1>1, GoesOn DEF BeginBlock
<1>2. CASE EndBlock
  BY <1>2, GoesOn DEF EndBlock, Idle
<1>3. ASSUME NEW s \in Snapshots, BeginRead(s) PROVE Inv'
  <2>1. /\ cb.at = s /\ ~Odd(seq[s]) /\ cb' = Reading(s, seq[s])
        /\ UNCHANGED <<userVars, streamVars, lockVars>>
    BY <1>3 DEF BeginRead, Locked
  <2>2. stream'.phase \notin {"none", "wiring"}
    BY <2>1, Names DEF Inv, Reader, streamVars
  <2>3. cb'.at = s /\ cb'.seq = seq'[s] /\ IsValue(cb'.copy, s) /\ cb'.done = {}
    BY <2>1, Defaults DEF Reading, lockVars
  <2>4. seq'[s] \in Nat /\ ~Odd(seq'[s])
    BY <2>1 DEF Inv, Memory, lockVars
  <2>5. Reader'
    BY <2>2, <2>3, <2>4 DEF Reader, IsValue, Odd
  <2> QED BY <2>1, <2>5, ReaderStep
<1>4. ASSUME NEW s \in Snapshots, NEW f \in Fields(s), ReadField(s, f) PROVE Inv'
  <2>1. /\ cb.at = s /\ cb.seq # NotReading
        /\ cb' = [at |-> s, seq |-> cb.seq, copy |-> [cb.copy EXCEPT ![f] = mem[s][f]],
                  done |-> cb.done \union {f}]
        /\ UNCHANGED <<userVars, streamVars, lockVars>>
    BY <1>4 DEF ReadField
  <2>2. stream'.phase \notin {"none", "wiring"}
    BY <2>1, Names DEF Inv, Reader, streamVars
  <2>3. /\ cb.seq \in Nat /\ ~Odd(cb.seq) /\ cb.seq <= seq[s] /\ IsValue(cb.copy, s)
        /\ seq[s] = cb.seq => \A g \in cb.done : cb.copy[g] = last[s][g]
    BY <2>1 DEF Inv, Reader, Stable
  <2>4. /\ cb'.at = s /\ cb'.seq = cb.seq /\ cb'.done = cb.done \union {f}
        /\ cb'.copy = [cb.copy EXCEPT ![f] = mem[s][f]]
    BY <2>1
  <2>5. IsValue(cb'.copy, s) /\ cb'.copy[f] = mem[s][f]
    BY <2>3, <2>4, CopiedField
  <2>6. ASSUME seq[s] = cb.seq, NEW g \in cb'.done PROVE cb'.copy[g] = last[s][g]
    <3>1. mem[s] = last[s]
      BY <2>3, <2>6 DEF Inv, Writer
    <3>2. CASE g = f
      BY <2>5, <3>1, <3>2
    <3>3. CASE g # f
      <4>1. g \in cb.done
        BY <2>4, <3>3
      <4>2. cb'.copy[g] = cb.copy[g]
        BY <2>3, <2>4, <3>3 DEF IsValue
      <4> QED BY <2>3, <2>6, <4>1, <4>2
    <3> QED BY <3>2, <3>3
  <2>7. seq' = seq /\ last' = last
    BY <2>1 DEF lockVars
  <2>8. Reader'
    BY <2>2, <2>3, <2>4, <2>5, <2>6, <2>7 DEF Reader, Stable, IsValue, Odd
  <2> QED BY <2>1, <2>8, ReaderStep
<1>5. ASSUME NEW s \in Snapshots, cb.at = s PROVE stream.phase \notin {"none", "wiring"}
  BY <1>5, Names DEF Inv, Reader
<1>6. ASSUME NEW s \in Snapshots, ReadAgain(s) PROVE Inv'
  BY <1>5, <1>6, GoesOn DEF ReadAgain, Copied
<1>7. ASSUME NEW s \in Snapshots, Apply(s) PROVE Inv'
  BY <1>5, <1>7, GoesOn DEF Apply, Copied
<1> QED BY <1>1, <1>2, <1>3, <1>4, <1>6, <1>7 DEF Callback, ReadSnapshots

----------------------------------------------------------------------------
\* Every step keeps the invariant.
LEMMA NextInv == Inv /\ [Next]_vars => Inv'
<1>1. Inv /\ UNCHANGED vars => Inv'
  BY QuietStep DEF vars, userVars, streamVars
<1> QED BY <1>1, EditsInv, HandlerInv, LoseInv, WatchdogInv, CallbackInv DEF Next

\* A stable copy that is complete is the value last published.
LEMMA InvNoTorn == Inv => NoTornSnapshot
<1> SUFFICES ASSUME Inv, NEW s \in Snapshots, Copied(s), Stable(s)
             PROVE  cb.copy = last[s]
  BY DEF NoTornSnapshot
<1>1. /\ IsValue(cb.copy, s) /\ IsValue(last[s], s) /\ cb.done = Fields(s)
      /\ \A f \in cb.done : cb.copy[f] = last[s][f]
  BY DEF Inv, Memory, Reader, Copied
<1> QED BY <1>1, SameFields

\* The callback takes no torn snapshot and none that was not published last,
\* however its reads, the handlers' publications and the rebuilds run into each other.
THEOREM SnapshotsAreWhole == Spec => []NoTornSnapshot
<1>1. Spec => []Inv
  BY InitInv, NextInv, PTL DEF Spec
<1> QED BY <1>1, InvNoTorn, PTL

----------------------------------------------------------------------------
(* RenderControl: the types.                                               *)

UserType == [source : Slots, local : [Slots -> BOOLEAN], muted : BOOLEAN]

UserTypes ==
  /\ dual \in BOOLEAN /\ dual \in Modes
  /\ user \in UserType
  /\ rev \in [Slots -> Nat] /\ edits \in 0..MaxEdits
  /\ edit = [item |-> edit.item, todo |-> edit.todo] /\ edit.item \in Items
  /\ racing \subseteq Items /\ sources \subseteq Slots

StreamTypes ==
  stream \in [phase : {"none", "wiring", "started", "live"}, lost : 0..MaxLosses]

\* What is applied is a value of its snapshot: the one attached, or one that was read.
CallbackTypes ==
  /\ cb.at \in Snapshots \union {"idle", "mix"} /\ cb.seq \in Nat \union {NotReading}
  /\ applied = [s \in Snapshots |-> applied[s]]
  /\ \A s \in Snapshots : IsValue(applied[s], s)

RenderTypes == UserTypes /\ StreamTypes /\ CallbackTypes

\* Slot 0's flag is a field of its snapshot.
LEMMA AttachedIsValue == \A s \in Snapshots : IsValue(Attached(s), s)
<1> SUFFICES ASSUME NEW s \in Snapshots PROVE IsValue(Attached(s), s)
  OBVIOUS
<1>1. CASE s = Config
  BY <1>1, Defaults DEF Attached
<1>2. CASE s # Config
  <2>1. "virtualMic" \in Fields(s)
    BY <1>2 DEF Fields
  <2>2. IsValue([Default(s) EXCEPT !["virtualMic"] = (s = First)], s)
    BY <2>1, Defaults, CopiedField
  <2>3. Attached(s) = [Default(s) EXCEPT !["virtualMic"] = (s = First)]
    BY <1>2 DEF Attached
  <2> QED BY <2>2, <2>3
<1> QED BY <1>1, <1>2

\* The first stream's variables have their types.
LEMMA InitTypes == Init => RenderTypes
<1> SUFFICES ASSUME Init PROVE RenderTypes
  OBVIOUS
<1>1. UserTypes
  BY RenderAssumption DEF Init, UserTypes, UserType, NoEdit, Items, Slots
<1>2. StreamTypes
  BY RenderAssumption DEF Init, StreamTypes
<1>3. CallbackTypes
  BY AttachedIsValue DEF Init, CallbackTypes, Idle, With
<1> QED BY <1>1, <1>2, <1>3 DEF RenderTypes

\* A change keeps the record of what the user sets.
LEMMA EditsTypes == RenderTypes /\ Edits => RenderTypes'
<1> SUFFICES ASSUME RenderTypes, Edits PROVE RenderTypes'
  OBVIOUS
<1>1. StreamTypes' /\ CallbackTypes'
  BY DEF Edits, SelectSource, EditLocal, EditOutput, Change, RenderTypes, StreamTypes,
         CallbackTypes, streamVars, callbackVars, IsValue
<1> DEFINE Changed(item, value) ==
             /\ edits < MaxEdits /\ user' = value /\ edits' = edits + 1 /\ edit'.item = item
             /\ edit' = [item |-> edit'.item, todo |-> edit'.todo]
             /\ racing' \subseteq racing \union {item}
             /\ UNCHANGED <<dual, rev>>
<1>2. ASSUME NEW item \in Items, NEW value \in UserType, Changed(item, value),
             sources' \subseteq Slots
      PROVE  UserTypes'
  BY <1>2, RenderAssumption DEF RenderTypes, UserTypes
<1>3. \A item, value, steps : Change(item, value, steps) => Changed(item, value)
  BY DEF Change
<1>4. user \in UserType /\ sources \subseteq Slots
  BY DEF RenderTypes, UserTypes
<1> HIDE DEF Changed
<1>5. CASE \E source \in Slots : SelectSource(source)
  <2> PICK source \in Slots : SelectSource(source)
    BY <1>5
  <2> DEFINE effective == IF dual THEN source ELSE First
  <2>1. effective \in Slots
    BY DEF Slots
  <2> HIDE DEF effective
  <2>2. [user EXCEPT !.source = effective] \in UserType
    BY <1>4, <2>1 DEF UserType
  <2>3. Changed("source", [user EXCEPT !.source = effective]) /\ sources' \subseteq Slots
    BY <1>3, <1>4, <2>1 DEF SelectSource, effective
  <2> QED BY <1>1, <1>2, <2>2, <2>3 DEF Items, RenderTypes
<1>6. CASE \E s \in Slots : EditLocal(s)
  <2> PICK s \in Slots : EditLocal(s)
    BY <1>6
  <2>1. [user EXCEPT !.local[s] = ~@] \in UserType
    BY <1>4 DEF UserType
  <2>2. Changed(s, [user EXCEPT !.local[s] = ~@]) /\ sources' \subseteq Slots
    BY <1>3, <1>4 DEF EditLocal
  <2> QED BY <1>1, <1>2, <2>1, <2>2 DEF Items, RenderTypes
<1>7. CASE EditOutput
  <2>1. [user EXCEPT !.muted = ~@] \in UserType
    BY <1>4 DEF UserType
  <2>2. Changed("muted", [user EXCEPT !.muted = ~@]) /\ sources' \subseteq Slots
    BY <1>3, <1>4, <1>7 DEF EditOutput
  <2> QED BY <1>1, <1>2, <2>1, <2>2 DEF Items, RenderTypes
<1> QED BY <1>5, <1>6, <1>7 DEF Edits

\* A handler raises revisions and goes on to its next step.
LEMMA HandlerTypes == RenderTypes /\ Handler => RenderTypes'
<1> SUFFICES ASSUME RenderTypes, Handler PROVE RenderTypes'
  OBVIOUS
<1>1. UNCHANGED <<dual, user, edits, racing, sources, stream, cb, applied>>
  BY DEF Handler, RaiseRevisions, UpdateIsLost, BeginUpdate, EndUpdate, CopyField, userVars,
         streamVars, callbackVars
<1>2. StreamTypes' /\ CallbackTypes'
  BY <1>1 DEF RenderTypes, StreamTypes, CallbackTypes, IsValue
<1>3. Done \/ UNCHANGED edit
  BY DEF Handler, RaiseRevisions, UpdateIsLost, BeginUpdate, EndUpdate, CopyField, userVars
<1>4. edit' = [item |-> edit'.item, todo |-> edit'.todo] /\ edit'.item \in Items
  BY <1>3 DEF RenderTypes, UserTypes, Done, NoEdit, Items
<1>5. rev' \in [Slots -> Nat]
  <2>1. CASE RaiseRevisions
    BY <2>1 DEF RaiseRevisions, RenderTypes, UserTypes
  <2>2. CASE ~RaiseRevisions
    BY <2>2 DEF Handler, UpdateIsLost, BeginUpdate, EndUpdate, CopyField, userVars,
                RenderTypes, UserTypes
  <2> QED BY <2>1, <2>2
<1>6. UserTypes'
  BY <1>1, <1>4, <1>5 DEF RenderTypes, UserTypes
<1> QED BY <1>2, <1>6 DEF RenderTypes

\* Streams are lost and built one after the other; a new adapter has what attach gives it.
LEMMA StreamStepTypes == RenderTypes /\ (LoseStream \/ Watchdog) => RenderTypes'
<1> SUFFICES ASSUME RenderTypes, LoseStream \/ Watchdog PROVE RenderTypes'
  OBVIOUS
<1>1. /\ UNCHANGED <<dual, user, rev, edits, edit, racing, cb>>
      /\ sources' = sources \/ sources' = {user.source}
      /\ \/ UNCHANGED applied
         \/ applied' = [s \in Snapshots |-> Attached(s)]
  BY DEF LoseStream, Watchdog, NewAdapter, WireConfig, Start, SwapIn, ReadSends, PublishSends,
         Wire, userVars, callbackVars
<1>2. UserTypes'
  BY <1>1 DEF RenderTypes, UserTypes, UserType
<1>3. CallbackTypes'
  BY <1>1, AttachedIsValue DEF RenderTypes, CallbackTypes, IsValue
<1>4. StreamTypes'
  BY RenderAssumption
     DEF LoseStream, Watchdog, NewAdapter, WireConfig, Start, SwapIn, ReadSends, PublishSends,
         Wire, RenderTypes, StreamTypes
<1> QED BY <1>2, <1>3, <1>4 DEF RenderTypes

\* The callback goes from snapshot to snapshot and applies values that it has read.
LEMMA CallbackStepTypes == Inv /\ RenderTypes /\ Callback => RenderTypes'
<1> SUFFICES ASSUME Inv, RenderTypes, Callback PROVE RenderTypes'
  OBVIOUS
<1>1. UserTypes' /\ StreamTypes'
  BY DEF Callback, BeginBlock, ReadSnapshots, BeginRead, ReadAgain, Apply, ReadField, EndBlock,
         userVars, streamVars, RenderTypes, UserTypes, StreamTypes
<1>2. CASE BeginBlock \/ EndBlock
  BY <1>1, <1>2 DEF BeginBlock, EndBlock, With, Idle, RenderTypes, CallbackTypes, IsValue,
                    Snapshots, Slots
<1>3. ASSUME NEW s \in Snapshots,
             BeginRead(s) \/ ReadAgain(s) \/ \E f \in Fields(s) : ReadField(s, f)
      PROVE  RenderTypes'
  <2>1. seq[s] \in Nat
    BY DEF Inv, Memory
  <2>2. applied' = applied /\ cb'.at = s /\ cb'.seq \in Nat \union {NotReading}
    BY <1>3, <2>1 DEF BeginRead, ReadAgain, ReadField, Reading, With, RenderTypes, CallbackTypes
  <2> QED BY <1>1, <2>2 DEF RenderTypes, CallbackTypes, IsValue
<1>4. ASSUME NEW s \in Snapshots, Apply(s)
      PROVE  RenderTypes'
  <2>1. IsValue(cb.copy, s)
    BY <1>4 DEF Apply, Copied, Inv, Reader
  <2>2. cb'.at \in Snapshots \union {"mix"} /\ cb'.seq = NotReading
    BY <1>4 DEF Apply, With, Following, Snapshots, Slots
  <2>3. applied' = applied \/ applied' = [applied EXCEPT ![s] = cb.copy]
    BY <1>4 DEF Apply
  <2>4. CallbackTypes'
    BY <2>1, <2>2, <2>3 DEF RenderTypes, CallbackTypes, IsValue
  <2> QED BY <1>1, <2>4 DEF RenderTypes
<1> QED BY <1>2, <1>3, <1>4 DEF Callback, ReadSnapshots

\* Every step keeps the types.
LEMMA NextTypes == Inv /\ RenderTypes /\ [Next]_vars => RenderTypes'
<1>1. RenderTypes /\ UNCHANGED vars => RenderTypes'
  BY DEF RenderTypes, UserTypes, StreamTypes, CallbackTypes, IsValue, vars, userVars, streamVars,
         callbackVars
<1> QED BY <1>1, EditsTypes, HandlerTypes, StreamStepTypes, CallbackStepTypes DEF Next

\* The snapshots in memory are of the fields they have.
LEMMA InvTypes == Inv /\ RenderTypes => TypeOK
<1> SUFFICES ASSUME Inv, RenderTypes PROVE TypeOK
  OBVIOUS
<1>1. \A s \in Snapshots : DOMAIN mem[s] = Fields(s) /\ DOMAIN applied[s] = Fields(s)
  BY DEF Inv, Memory, RenderTypes, CallbackTypes, IsValue
<1> QED BY <1>1 DEF Inv, Memory, RenderTypes, UserTypes, UserType, StreamTypes, CallbackTypes, TypeOK

\* Whatever is lost and rebuilt, the adapter's memory and what the callback has applied are
\* always whole records of their snapshots, and every other variable keeps its type.
THEOREM RenderTypeCorrect == Spec => []TypeOK
<1>1. Spec => [](Inv /\ RenderTypes)
  BY InitInv, NextInv, InitTypes, NextTypes, PTL DEF Spec
<1> QED BY <1>1, InvTypes, PTL

----------------------------------------------------------------------------
(* The virtual microphone of a dual set-up.                                *)

\* A channel is sent to the virtual microphone, or is not, as it was selected at some
\* time since the adapter was made.
Selected(v, s) == IF v.virtualMic THEN s \in sources ELSE sources # {s}

\* A snapshot that was published by the program.
Good(v, s) == Selected(v, s) /\ v.revision # 0

Choice ==
  /\ user = [source |-> user.source, local |-> user.local, muted |-> user.muted]
  /\ user.source \in sources
  /\ rev \in [Slots -> Nat \ {0}]
  /\ stream.phase \in {"none", "wiring", "started", "live"}

\* What wireAdapter has left to do, and what it has done.
AllLeft == <<First, Second, Config>>
OneDone == <<Second, Config>>
Wiring ==
  stream.phase = "wiring" =>
    /\ wiring.todo \in {AllLeft, OneDone, <<Config>>, << >>}
    /\ wiring.source \in sources
    /\ wiring.todo # AllLeft => Good(last[First], First)
    /\ wiring.todo \in {<<Config>>, << >>} => Good(last[Second], Second)
    /\ wiring.read # << >> => Selected(wiring.read[1], Head(wiring.todo))

Published ==
  stream.phase \in {"started", "live"} => \A s \in Slots : Good(last[s], s)

\* The places of a block behind the snapshot of a slot.
Behind(s) == IF s = First THEN {Second, Config, "mix"} ELSE {Config, "mix"}

Applied ==
  /\ applied = [s \in Snapshots |-> applied[s]]
  /\ \A s \in Slots :
       /\ stream.phase # "none" /\ applied[s].revision # 0 => Selected(applied[s], s)
       /\ cb.at \in Behind(s) => applied[s].revision # 0

Mic == dual => Choice /\ Wiring /\ Published /\ Applied

----------------------------------------------------------------------------
\* A selection that grows takes nothing back.
LEMMA SelectionGrows ==
  ASSUME user.source \in sources, sources \subseteq sources'
  PROVE  \A v, s : Selected(v, s) => Selected(v, s)'
BY DEF Selected

\* What is selected now was selected.
LEMMA NowSelected ==
  ASSUME dual, NEW source \in sources, NEW v, NEW s, v.virtualMic = SendsOf(source, s)
  PROVE  Selected(v, s)
BY DEF Selected, SendsOf

\* The fields of what is published for a channel.
LEMMA SendFields ==
  \A v, a, b, c : v = [virtualMic |-> a, local |-> b, revision |-> c]
    => v.virtualMic = a /\ v.revision = c
OBVIOUS

\* The first stream carries the first input.
LEMMA InitMic == Init => Mic
<1> SUFFICES ASSUME Init, dual PROVE Choice /\ Wiring /\ Published /\ Applied
  BY DEF Mic
<1>1. Choice
  BY DEF Init, Choice
<1>2. Wiring
  BY DEF Init, Wiring
<1>3. user.source \in sources
  BY DEF Init
<1>4. \A s \in Slots : last[s] = [virtualMic |-> Sends(s), local |-> user.local[s], revision |-> 1]
  BY DEF Init, Snapshots, Slots, First, Second, Config
<1>5. Published
  <2>1. ASSUME NEW s \in Slots PROVE Good(last[s], s)
    <3>0. last[s] = [virtualMic |-> Sends(s), local |-> user.local[s], revision |-> 1]
      BY <1>4, <2>1
    <3>1. last[s].virtualMic = Sends(s)
      BY <3>0, SMT
    <3>2. last[s].revision = 1
      BY <3>0, SMT
    <3>3. Selected(last[s], s)
      BY <1>3, <3>1, NowSelected DEF Sends
    <3> QED BY <3>2, <3>3 DEF Good
  <2> QED BY <2>1 DEF Published
<1>6. /\ applied = [s \in Snapshots |-> Attached(s)]
      /\ cb.at = "idle"
  BY DEF Init, Idle, With
<1>7. \A s \in Slots : applied[s].revision = 0
  BY <1>6 DEF Attached, Default, Snapshots, Slots, First, Second, Config
<1>8. Applied
  BY <1>6, <1>7 DEF Applied, Behind, Slots, First, Second, Config
<1> QED BY <1>1, <1>2, <1>5, <1>8

\* The user selects another input: what was selected until now may still be carried.
LEMMA EditsMic == Mic /\ Edits => Mic'
<1> SUFFICES ASSUME Mic, Edits, dual PROVE (Choice /\ Wiring /\ Published /\ Applied)'
  BY DEF Edits, SelectSource, EditLocal, EditOutput, Change, Mic
<1>1. Choice /\ Wiring /\ Published /\ Applied
  BY DEF Mic
<1>2. /\ rev' = rev /\ stream' = stream /\ wiring' = wiring
      /\ last' = last /\ cb' = cb /\ applied' = applied
  BY DEF Edits, SelectSource, EditLocal, EditOutput, Change, streamVars, lockVars,
         callbackVars
<1>3. /\ user' = [source |-> user'.source, local |-> user'.local, muted |-> user'.muted]
      /\ user'.source \in sources' /\ sources \subseteq sources'
  <2>1. user = [source |-> user.source, local |-> user.local, muted |-> user.muted]
    BY <1>1 DEF Choice
  <2>2. ASSUME NEW source \in Slots, SelectSource(source)
        PROVE  user' = [user EXCEPT !.source = source] /\ sources' = sources \union {source}
    BY <2>2 DEF SelectSource, Change
  <2>3. ASSUME NEW s \in Slots, EditLocal(s)
        PROVE  user' = [user EXCEPT !.local[s] = ~@] /\ sources' = sources
    BY <2>3 DEF EditLocal, Change
  <2>4. EditOutput => user' = [user EXCEPT !.muted = ~@] /\ sources' = sources
    BY DEF EditOutput, Change
  <2>5. user.source \in sources
    BY <1>1 DEF Choice
  <2>6. ASSUME NEW source \in Slots, SelectSource(source)
        PROVE  /\ user' = [source |-> user'.source, local |-> user'.local,
                           muted |-> user'.muted]
               /\ user'.source = source
    BY <2>1, <2>2, <2>6
  <2>7. ASSUME NEW s \in Slots, EditLocal(s)
        PROVE  /\ user' = [source |-> user'.source, local |-> user'.local,
                           muted |-> user'.muted]
               /\ user'.source = user.source
    BY <2>1, <2>3, <2>7
  <2>8. ASSUME EditOutput
        PROVE  /\ user' = [source |-> user'.source, local |-> user'.local,
                           muted |-> user'.muted]
               /\ user'.source = user.source
    BY <2>1, <2>4, <2>8
  <2> QED BY <2>2, <2>3, <2>4, <2>5, <2>6, <2>7, <2>8 DEF Edits
<1>4. \A v, s : Selected(v, s) => Selected(v, s)'
  BY <1>1, <1>3, SelectionGrows DEF Choice
<1>5. Choice'
  BY <1>1, <1>2, <1>3 DEF Choice
<1>6. Wiring'
  BY <1>1, <1>2, <1>3, <1>4 DEF Wiring, Good
<1>7. Published'
  BY <1>1, <1>2, <1>4 DEF Published, Good
<1>8. Applied'
  BY <1>1, <1>2, <1>4 DEF Applied
<1> QED BY <1>5, <1>6, <1>7, <1>8

\* A step that publishes and applies nothing.
LEMMA SilentMic ==
  ASSUME Mic, UNCHANGED <<dual, user, sources, stream, wiring, last, applied>>,
         cb'.at = cb.at \/ cb'.at \notin {Second, Config, "mix"},
         dual => rev' \in [Slots -> Nat \ {0}]
  PROVE  Mic'
<1> SUFFICES ASSUME dual PROVE (Choice /\ Wiring /\ Published /\ Applied)'
  BY DEF Mic
<1>1. Choice /\ Wiring /\ Published /\ Applied
  BY DEF Mic
<1>2. \A v, s : Selected(v, s)' <=> Selected(v, s)
  BY DEF Selected
<1>3. Choice'
  BY <1>1 DEF Choice
<1>4. Wiring'
  BY <1>1, <1>2 DEF Wiring, Good
<1>5. Published'
  BY <1>1, <1>2 DEF Published, Good
<1>6. Applied'
  BY <1>1, <1>2 DEF Applied, Behind
<1> QED BY <1>3, <1>4, <1>5, <1>6

\* A handler publishes what is selected, or what was published before.
LEMMA HandlerMic == Inv /\ Mic /\ Handler => Mic'
<1> SUFFICES ASSUME Inv, Mic, Handler PROVE Mic'
  OBVIOUS
<1>1. CASE RaiseRevisions
  <2>1. dual => rev' \in [Slots -> Nat \ {0}]
    BY <1>1 DEF RaiseRevisions, Mic, Choice
  <2> QED BY <1>1, <2>1, SilentMic DEF RaiseRevisions, streamVars, lockVars, callbackVars
<1>2. dual => rev \in [Slots -> Nat \ {0}]
  BY DEF Mic, Choice
<1>3. ASSUME NEW s \in Snapshots, UpdateIsLost(s) PROVE Mic'
  BY <1>2, <1>3, SilentMic DEF UpdateIsLost, streamVars, lockVars, callbackVars
<1>4. ASSUME NEW s \in Snapshots, EndUpdate(s) PROVE Mic'
  BY <1>2, <1>4, SilentMic DEF EndUpdate, streamVars, lockVars, callbackVars
<1>5. ASSUME NEW s \in Snapshots, NEW f \in Fields(s), CopyField(s, f) PROVE Mic'
  BY <1>2, <1>5, SilentMic DEF CopyField, userVars, streamVars, callbackVars
<1>6. ASSUME NEW s \in Snapshots, BeginUpdate(s) PROVE Mic'
  <2> SUFFICES ASSUME dual PROVE (Choice /\ Wiring /\ Published /\ Applied)'
    BY <1>6 DEF Mic, BeginUpdate, userVars
  <2>1. Choice /\ Wiring /\ Published /\ Applied
    BY <1>6 DEF Mic, BeginUpdate, userVars
  <2>2. /\ user' = user /\ sources' = sources /\ rev' = rev
        /\ stream' = stream /\ cb' = cb /\ applied' = applied
        /\ stream.phase = "live" /\ ~Odd(seq[s])
        /\ last' = [last EXCEPT ![s] = Updated(s)]
    BY <1>6 DEF BeginUpdate, userVars, streamVars, callbackVars
  <2>3. \A v, t : Selected(v, t)' <=> Selected(v, t)
    BY <2>2 DEF Selected
  <2>4. \A t \in Snapshots : last'[t] = IF t = s THEN Updated(s) ELSE last[t]
    BY <2>2 DEF Inv, Memory
  <2>5. ASSUME s \in Slots PROVE Good(Updated(s), s)
    <3>1. /\ s # Config /\ mem[s] = last[s] /\ IsValue(mem[s], s)
          /\ Fields(s) = {"virtualMic", "local", "revision"}
      BY <2>2, <2>5 DEF Inv, Memory, Writer, Fields, Slots, First, Second, Config
    <3>2. rev[s] # 0 /\ user.source \in sources
      BY <2>1, <2>5 DEF Choice
    <3>3. CASE edit.item = "source"
      <4>1. Updated(s) = [mem[s] EXCEPT !.virtualMic = Sends(s), !.revision = rev[s]]
        BY <3>1, <3>3 DEF Updated, Mutated
      <4>2. Updated(s).virtualMic = Sends(s) /\ Updated(s).revision = rev[s]
        BY <3>1, <4>1 DEF IsValue
      <4> QED BY <3>2, <4>2, NowSelected, <2>5 DEF Good, Sends
    <3>4. CASE edit.item # "source"
      <4>1. Updated(s) = [mem[s] EXCEPT !.local = user.local[s], !.revision = rev[s]]
        BY <3>1, <3>4 DEF Updated, Mutated
      <4>2. Updated(s).virtualMic = mem[s].virtualMic /\ Updated(s).revision = rev[s]
        BY <3>1, <4>1 DEF IsValue
      <4>3. Selected(last[s], s)
        BY <2>1, <2>2, <2>5 DEF Published, Good
      <4> QED BY <3>1, <3>2, <4>2, <4>3 DEF Good, Selected
    <3> QED BY <3>3, <3>4
  <2>6. Choice'
    BY <2>1, <2>2 DEF Choice
  <2>7. Wiring'
    BY <2>2 DEF Wiring
  <2>8. Published'
    <3>1. \A t \in Slots : Good(last'[t], t)
      BY <2>1, <2>2, <2>4, <2>5 DEF Published, Snapshots
    <3> QED BY <2>3, <3>1 DEF Published, Good
  <2>9. Applied'
    BY <2>1, <2>2, <2>3 DEF Applied
  <2> QED BY <2>6, <2>7, <2>8, <2>9
<1> QED BY <1>1, <1>3, <1>4, <1>5, <1>6 DEF Handler

\* A stream that is lost leaves its adapter behind.
LEMMA LoseMic == Inv /\ Mic /\ LoseStream => Mic'
<1> SUFFICES ASSUME Inv, Mic, LoseStream, dual
             PROVE  (Choice /\ Wiring /\ Published /\ Applied)'
  BY DEF Mic, LoseStream, userVars
<1>1. Choice /\ Wiring /\ Published /\ Applied
  BY DEF Mic
<1>2. /\ user' = user /\ rev' = rev /\ sources' = sources /\ last' = last
      /\ cb' = cb /\ applied' = applied /\ cb.at = "idle"
      /\ stream'.phase = "none"
  BY DEF LoseStream, userVars, lockVars, callbackVars
<1>3. Choice'
  BY <1>1, <1>2 DEF Choice
<1>4. Wiring' /\ Published'
  BY <1>2 DEF Wiring, Published
<1>5. Applied'
  BY <1>1, <1>2 DEF Applied, Behind
<1> QED BY <1>3, <1>4, <1>5

\* A new adapter has applied nothing yet.
LEMMA NewAdapterMic == Inv /\ Mic /\ NewAdapter => Mic'
<1> SUFFICES ASSUME Inv, Mic, NewAdapter, dual
             PROVE  (Choice /\ Wiring /\ Published /\ Applied)'
  BY DEF Mic, NewAdapter
<1>1. Choice /\ Wiring /\ Published /\ Applied
  BY DEF Mic
<1>2. /\ user' = user /\ rev' = rev /\ sources' = {user.source}
      /\ stream.phase = "none" /\ stream'.phase = "wiring"
      /\ wiring' = [todo |-> WiringSteps, source |-> user.source, read |-> << >>]
      /\ applied' = [s \in Snapshots |-> Attached(s)] /\ cb' = cb
  BY DEF NewAdapter
<1>3. wiring'.todo = AllLeft /\ wiring'.read = << >> /\ wiring'.source \in sources'
  BY <1>2 DEF WiringSteps, AllLeft
<1>4. Choice'
  BY <1>1, <1>2 DEF Choice
<1>5. Wiring'
  BY <1>3 DEF Wiring, AllLeft
<1>6. Published'
  BY <1>2 DEF Published
<1>7. cb.at = "idle"
  BY <1>2 DEF Inv, Reader
<1>8. \A s \in Slots : applied'[s].revision = 0
  BY <1>2 DEF Attached, Default, Snapshots, Slots, First, Second, Config
<1>9. Applied'
  BY <1>2, <1>7, <1>8 DEF Applied, Behind, Slots, First, Second, Config
<1> QED BY <1>4, <1>5, <1>6, <1>9

\* The steps of the wiring, one after the other.
LEMMA WiringOrder ==
  /\ Head(AllLeft) = First /\ Tail(AllLeft) = OneDone
  /\ Head(OneDone) = Second /\ Tail(OneDone) = <<Config>>
  /\ Head(<<Config>>) = Config /\ Tail(<<Config>>) = << >>
  /\ AllLeft # OneDone /\ AllLeft # <<Config>> /\ AllLeft # << >>
  /\ OneDone # <<Config>> /\ OneDone # << >> /\ <<Config>> # << >>
  /\ First # Second /\ First # Config /\ Second # Config
<1>1. <<First, Second, Config>> # <<Second, Config>>
  OBVIOUS
<1>2. <<First, Second, Config>> # <<Config>> /\ <<First, Second, Config>> # << >>
  OBVIOUS
<1>3. <<Second, Config>> # <<Config>> /\ <<Second, Config>> # << >>
  OBVIOUS
<1>4. <<Config>> # << >>
  OBVIOUS
<1>5. /\ AllLeft # OneDone /\ AllLeft # <<Config>> /\ AllLeft # << >>
      /\ OneDone # <<Config>> /\ OneDone # << >> /\ <<Config>> # << >>
  BY <1>1, <1>2, <1>3, <1>4 DEF AllLeft, OneDone
<1>6. /\ Head(AllLeft) = First /\ Tail(AllLeft) = OneDone
      /\ Head(OneDone) = Second /\ Tail(OneDone) = <<Config>>
      /\ Head(<<Config>>) = Config /\ Tail(<<Config>>) = << >>
  BY DEF AllLeft, OneDone
<1> QED BY <1>5, <1>6 DEF First, Second, Config

\* A channel's sends are those of the input selected when they are read, which stays
\* among those selected since.
LEMMA ReadSendsMic == ASSUME Mic, NEW s \in Slots, ReadSends(s) PROVE Mic'
<1> SUFFICES ASSUME dual PROVE (Choice /\ Wiring /\ Published /\ Applied)'
  BY DEF Mic, ReadSends, userVars
<1>1. Choice /\ Wiring /\ Published /\ Applied
  BY DEF Mic
<1>2. /\ user' = user /\ rev' = rev /\ sources' = sources /\ stream' = stream
      /\ last' = last /\ cb' = cb /\ applied' = applied
      /\ stream.phase = "wiring" /\ Head(wiring.todo) = s
  BY DEF ReadSends, userVars, lockVars, callbackVars
<1>3. \A v, t : Selected(v, t)' <=> Selected(v, t)
  BY <1>2 DEF Selected
<1> DEFINE source == IF s = First THEN user.source ELSE wiring.source
<1>4. wiring' = [todo |-> wiring.todo, source |-> source, read |-> <<ChannelSends(source, s)>>]
  BY DEF ReadSends
<1>5. source \in sources
  BY <1>1, <1>2 DEF Choice, Wiring
<1> HIDE DEF source
<1>6. Selected(wiring'.read[1], s)
  <2>1. wiring'.read[1] = [virtualMic |-> SendsOf(source, s), local |-> user.local[s]]
    BY <1>4 DEF ChannelSends
  <2>2. wiring'.read[1].virtualMic = SendsOf(source, s)
    BY <2>1, SMT
  <2> QED BY <1>5, <2>2, NowSelected
<1>7. Choice'
  BY <1>1, <1>2 DEF Choice
<1>8. wiring'.todo = wiring.todo /\ wiring'.source \in sources'
  BY <1>2, <1>4, <1>5
<1>9. Wiring'
  BY <1>1, <1>2, <1>3, <1>6, <1>8 DEF Wiring, Good
<1>10. Published'
  BY <1>2 DEF Published
<1>11. Applied'
  BY <1>1, <1>2, <1>3 DEF Applied, Behind
<1> QED BY <1>7, <1>9, <1>10, <1>11

\* A step of the wiring publishes what it has read.
LEMMA PublishSendsMic == ASSUME Inv, Mic, NEW s \in Slots, PublishSends(s) PROVE Mic'
<1> SUFFICES ASSUME dual PROVE (Choice /\ Wiring /\ Published /\ Applied)'
  BY DEF Mic, PublishSends, Wire, userVars
<1>1. Choice /\ Wiring /\ Published /\ Applied
  BY DEF Mic
<1> DEFINE v == [virtualMic |-> wiring.read[1].virtualMic,
                 local |-> wiring.read[1].local, revision |-> rev[s]]
<1>2. /\ user' = user /\ rev' = rev /\ sources' = sources /\ stream' = stream
      /\ last' = [last EXCEPT ![s] = v] /\ cb' = cb /\ applied' = applied
      /\ stream.phase = "wiring" /\ wiring.todo # << >> /\ Head(wiring.todo) = s
      /\ wiring.read # << >>
      /\ wiring' = [todo |-> Tail(wiring.todo), source |-> wiring.source, read |-> << >>]
  BY DEF PublishSends, Wire, userVars, callbackVars
<1>3. \A w, t : Selected(w, t)' <=> Selected(w, t)
  BY <1>2 DEF Selected
<1>4. v.virtualMic = wiring.read[1].virtualMic /\ v.revision = rev[s]
  OBVIOUS
<1>5. Good(v, s)
  <2>1. Selected(wiring.read[1], s)
    BY <1>1, <1>2 DEF Wiring
  <2>2. rev[s] # 0
    BY <1>1 DEF Choice
  <2> QED BY <1>4, <2>1, <2>2 DEF Good, Selected
<1> HIDE DEF v
<1>6. last'[s] = v /\ \A t \in Slots : t # s => last'[t] = last[t]
  BY <1>2 DEF Inv, Memory, Snapshots
<1>7. wiring'.todo = Tail(wiring.todo) /\ wiring'.read = << >> /\ wiring'.source = wiring.source
  BY <1>2
<1>8. \/ s = First /\ wiring.todo = AllLeft /\ wiring'.todo = OneDone
      \/ s = Second /\ wiring.todo = OneDone /\ wiring'.todo = <<Config>>
  <2>1. wiring.todo \in {AllLeft, OneDone, <<Config>>}
    BY <1>1, <1>2 DEF Wiring
  <2>2. s \in {First, Second}
    BY DEF Slots
  <2> QED BY <1>2, <1>7, <2>1, <2>2, WiringOrder
<1>9. Choice'
  BY <1>1, <1>2 DEF Choice
<1>10. Wiring'
  <2>1. Good(last'[s], s)
    BY <1>5, <1>6
  <2>2. CASE s = First
    BY <1>1, <1>2, <1>3, <1>7, <1>8, <2>1, <2>2, WiringOrder DEF Wiring, Good
  <2>3. CASE s = Second
    <3>1. Good(last'[First], First)
      BY <1>1, <1>2, <1>6, <1>8, <2>3, WiringOrder DEF Wiring, Slots
    <3> QED BY <1>1, <1>2, <1>3, <1>7, <1>8, <2>1, <2>3, <3>1 DEF Wiring, Good
  <2> QED BY <2>2, <2>3 DEF Slots
<1>11. Published'
  BY <1>2 DEF Published
<1>12. Applied'
  BY <1>1, <1>2, <1>3 DEF Applied, Behind
<1> QED BY <1>9, <1>10, <1>11, <1>12

\* The output state is the last step of the wiring.
LEMMA WireConfigMic == Inv /\ Mic /\ WireConfig => Mic'
<1> SUFFICES ASSUME Inv, Mic, WireConfig, dual
             PROVE  (Choice /\ Wiring /\ Published /\ Applied)'
  BY DEF Mic, WireConfig, Wire, userVars
<1>1. Choice /\ Wiring /\ Published /\ Applied
  BY DEF Mic
<1>2. /\ user' = user /\ rev' = rev /\ sources' = sources /\ stream' = stream
      /\ last' = [last EXCEPT ![Config] = OutputState(1)] /\ cb' = cb
      /\ applied' = applied /\ stream.phase = "wiring"
      /\ wiring.todo # << >> /\ Head(wiring.todo) = Config
      /\ wiring' = [todo |-> Tail(wiring.todo), source |-> wiring.source, read |-> << >>]
  BY DEF WireConfig, Wire, userVars, callbackVars
<1>3. \A w, t : Selected(w, t)' <=> Selected(w, t)
  BY <1>2 DEF Selected
<1>4. \A t \in Slots : last'[t] = last[t]
  BY <1>2 DEF Inv, Memory, Snapshots, Slots, First, Second, Config
<1>5. wiring.todo = <<Config>>
  BY <1>1, <1>2, WiringOrder DEF Wiring
<1>6. wiring'.todo = << >> /\ wiring'.read = << >> /\ wiring'.source = wiring.source
  BY <1>2, <1>5
<1>7. Good(last[First], First) /\ Good(last[Second], Second)
  BY <1>1, <1>2, <1>5, WiringOrder DEF Wiring
<1>8. Choice'
  BY <1>1, <1>2 DEF Choice
<1>9. Wiring'
  BY <1>1, <1>2, <1>3, <1>4, <1>6, <1>7 DEF Wiring, Good, Slots
<1>10. Published'
  BY <1>2 DEF Published
<1>11. Applied'
  BY <1>1, <1>2, <1>3 DEF Applied, Behind
<1> QED BY <1>8, <1>9, <1>10, <1>11

\* The driver starts when both channels are published, and the session is put in
\* place after that.
LEMMA StartMic == Inv /\ Mic /\ (Start \/ SwapIn) => Mic'
<1> SUFFICES ASSUME Inv, Mic, Start \/ SwapIn, dual
             PROVE  (Choice /\ Wiring /\ Published /\ Applied)'
  BY DEF Mic, Start, SwapIn, userVars
<1>1. Choice /\ Wiring /\ Published /\ Applied
  BY DEF Mic
<1>2. /\ user' = user /\ rev' = rev /\ sources' = sources /\ last' = last
      /\ wiring' = wiring /\ cb' = cb /\ applied' = applied
      /\ stream'.phase \in {"started", "live"}
      /\ \/ stream.phase = "wiring" /\ wiring.todo = << >>
         \/ stream.phase = "started"
  <2>1. CASE Start
    BY <2>1 DEF Start, userVars, lockVars, callbackVars
  <2>2. CASE SwapIn
    BY <2>2 DEF SwapIn, userVars, lockVars, callbackVars
  <2> QED BY <2>1, <2>2
<1>3. \A w, t : Selected(w, t)' <=> Selected(w, t)
  BY <1>2 DEF Selected
<1>4. \A t \in Slots : Good(last[t], t)
  <2>1. CASE stream.phase = "wiring"
    BY <1>1, <1>2, <2>1, WiringOrder DEF Wiring, Slots
  <2>2. CASE stream.phase = "started"
    BY <1>1, <2>2 DEF Published
  <2> QED BY <1>2, <2>1, <2>2
<1>5. Choice'
  BY <1>1, <1>2 DEF Choice
<1>6. Wiring'
  BY <1>2 DEF Wiring
<1>7. Published'
  BY <1>2, <1>3, <1>4 DEF Published, Good
<1>8. Applied'
  BY <1>1, <1>2, <1>3 DEF Applied, Behind
<1> QED BY <1>5, <1>6, <1>7, <1>8

\* A block applies the value last published, unless it has applied it already.
LEMMA ApplyMic == ASSUME Inv, Mic, NEW s \in Snapshots, Apply(s) PROVE Mic'
<1> SUFFICES ASSUME dual PROVE (Choice /\ Wiring /\ Published /\ Applied)'
  BY DEF Mic, Apply, userVars
<1>1. Choice /\ Wiring /\ Published /\ Applied
  BY DEF Mic
<1>2. /\ user' = user /\ rev' = rev /\ sources' = sources /\ last' = last
      /\ stream' = stream /\ wiring' = wiring
      /\ cb.at = s /\ cb' = With(Following(s))
      /\ applied' = IF cb.copy.revision # applied[s].revision
                    THEN [applied EXCEPT ![s] = cb.copy] ELSE applied
  BY DEF Apply, Copied, userVars, streamVars, lockVars
<1>3. \A w, t : Selected(w, t)' <=> Selected(w, t)
  BY <1>2 DEF Selected
<1>4. cb.copy = last[s]
  BY InvNoTorn DEF NoTornSnapshot, Apply
<1>5. stream.phase \in {"started", "live"}
  BY <1>1, <1>2, Names DEF Inv, Reader, Choice
<1>6. s \in Slots => Good(cb.copy, s)
  BY <1>1, <1>4, <1>5 DEF Published
<1>7. applied' = [t \in Snapshots |-> applied'[t]]
  BY <1>1, <1>2 DEF Applied
<1>8. \A t \in Slots : t # s => applied'[t] = applied[t]
  BY <1>1, <1>2 DEF Applied, Snapshots
<1>9. ASSUME s \in Slots
      PROVE  applied'[s].revision # 0 /\ Selected(applied'[s], s)
  <2>1. CASE cb.copy.revision # applied[s].revision
    <3>1. applied'[s] = cb.copy
      BY <1>1, <1>2, <2>1 DEF Applied
    <3> QED BY <1>6, <1>9, <3>1 DEF Good
  <2>2. CASE cb.copy.revision = applied[s].revision
    <3>1. applied'[s] = applied[s]
      BY <1>2, <2>2
    <3>2. applied[s].revision # 0
      BY <1>6, <1>9, <2>2 DEF Good
    <3> QED BY <1>1, <1>5, <1>9, <3>1, <3>2 DEF Applied
  <2> QED BY <2>1, <2>2
<1>10. cb'.at = Following(s)
  BY <1>2 DEF With
<1>11. \A t \in Slots : Following(s) \in Behind(t) => t = s \/ s \in Behind(t)
  <2>1. CASE s = First
    BY <2>1 DEF Following, Behind, Slots, First, Second, Config
  <2>2. CASE s = Second
    BY <2>2 DEF Following, Behind, Slots, First, Second, Config
  <2>3. CASE s = Config
    BY <2>3 DEF Following, Behind, Slots, First, Second, Config
  <2> QED BY <2>1, <2>2, <2>3 DEF Snapshots, Slots
<1>12. Choice'
  BY <1>1, <1>2 DEF Choice
<1>13. Wiring' /\ Published'
  BY <1>1, <1>2, <1>3 DEF Wiring, Published, Good
<1>14. Applied'
  <2>1. ASSUME NEW t \in Slots
        PROVE  /\ applied'[t].revision # 0 => Selected(applied'[t], t)
               /\ Following(s) \in Behind(t) => applied'[t].revision # 0
    <3>1. CASE t = s
      BY <1>9, <3>1
    <3>2. CASE t # s
      BY <1>1, <1>2, <1>5, <1>8, <1>11, <2>1, <3>2 DEF Applied
    <3> QED BY <3>1, <3>2
  <2>2. \A t : Behind(t)' = Behind(t)
    BY DEF Behind
  <2> QED BY <1>3, <1>7, <1>10, <2>1, <2>2 DEF Applied
<1> QED BY <1>12, <1>13, <1>14

\* What the callback does.
LEMMA CallbackMic == Inv /\ Mic /\ Callback => Mic'
<1> SUFFICES ASSUME Inv, Mic, Callback PROVE Mic'
  OBVIOUS
<1>1. dual => rev \in [Slots -> Nat \ {0}]
  BY DEF Mic, Choice
<1>2. CASE BeginBlock
  BY <1>1, <1>2, SilentMic
     DEF BeginBlock, With, userVars, streamVars, lockVars, First, Second, Config
<1>3. CASE EndBlock
  BY <1>1, <1>3, SilentMic
     DEF EndBlock, Idle, With, userVars, streamVars, lockVars, Second, Config
<1>4. ASSUME NEW s \in Snapshots, BeginRead(s) PROVE Mic'
  BY <1>1, <1>4, SilentMic
     DEF BeginRead, Reading, userVars, streamVars, lockVars
<1>5. ASSUME NEW s \in Snapshots, NEW f \in Fields(s), ReadField(s, f) PROVE Mic'
  BY <1>1, <1>5, SilentMic DEF ReadField, userVars, streamVars, lockVars
<1>6. ASSUME NEW s \in Snapshots, ReadAgain(s) PROVE Mic'
  BY <1>1, <1>6, SilentMic
     DEF ReadAgain, Copied, With, userVars, streamVars, lockVars
<1> QED BY <1>2, <1>3, <1>4, <1>5, <1>6, ApplyMic DEF Callback, ReadSnapshots

----------------------------------------------------------------------------
\* Every step keeps what a dual set-up's virtual microphone rests on.
LEMMA NextMic == Inv /\ Mic /\ [Next]_vars => Mic'
<1>1. Mic /\ UNCHANGED vars => Mic'
  <2> SUFFICES ASSUME Mic, UNCHANGED vars PROVE Mic'
    OBVIOUS
  <2>1. dual => rev' \in [Slots -> Nat \ {0}]
    BY DEF Mic, Choice, vars, userVars
  <2> QED BY <2>1, SilentMic DEF vars, userVars, streamVars, lockVars, callbackVars
<1>2. Inv /\ Mic /\ Watchdog => Mic'
  BY NewAdapterMic, WireConfigMic, StartMic, ReadSendsMic, PublishSendsMic DEF Watchdog
<1> QED BY <1>1, <1>2, EditsMic, HandlerMic, LoseMic, CallbackMic DEF Next

\* A block that mixes has applied both channels.
LEMMA MicFollows == Inv /\ Mic => VirtualMicFollowsSource
<1> SUFFICES ASSUME Inv, Mic, cb.at = "mix", dual, NEW s \in Slots
             PROVE  Selected(applied[s], s)
  BY DEF VirtualMicFollowsSource, Selected
<1>1. stream.phase # "none"
  BY DEF Inv, Reader
<1> QED BY <1>1 DEF Mic, Applied, Behind

\* The virtual microphone of a dual set-up carries the input that is selected and no
\* other, whatever else is edited and however often the stream is rebuilt.
THEOREM VirtualMicIsSelected == Spec => []VirtualMicFollowsSource
<1>1. Init => Inv /\ Mic
  BY InitInv, InitMic
<1>2. Inv /\ Mic /\ [Next]_vars => (Inv /\ Mic)'
  BY NextInv, NextMic
<1>3. Spec => [](Inv /\ Mic)
  BY <1>1, <1>2, PTL DEF Spec
<1> QED BY <1>3, MicFollows, PTL

----------------------------------------------------------------------------
(* ParameterEdits: where its edits are.                                    *)

At(i) == memory[i % Capacity]
Waiting == head..(tail - 1)

Increasing(list) == \A i, j \in 1..Len(list) : i < j => list[i] < list[j]

PluginTypes ==
  /\ performed \in Seq(Params)
  /\ head \in Nat /\ tail \in Nat /\ head <= tail /\ tail <= head + Capacity
  /\ memory \in [0..(Capacity - 1) -> Nat]
  /\ push \in [at : {"idle", "store", "publish"}, edit : Nat]
  /\ drain \in [at : {"idle", "copy", "deliver", "done"}, avail : Nat, batch : Seq(Nat)]
  /\ delivered \in Seq(Nat)

\* The edit in the hand of the producer is the newest, and there is room for it.
Producer ==
  push.at # "idle" =>
    /\ push.edit = Len(performed) /\ Len(performed) > 0
    /\ tail < head + Capacity
    /\ push.at = "publish" => At(tail) = push.edit

\* What the consumer has copied is still in the queue until it is published.
Consumer ==
  /\ drain.at = "copy" =>
       /\ drain.avail <= tail - head /\ Len(drain.batch) <= drain.avail
       /\ \A n \in 1..Len(drain.batch) : drain.batch[n] = At(head + n - 1)
  /\ drain.at = "deliver" => Increasing(drain.batch)

Before(early, late) == \A a \in early, b \in late : a < b

\* The edits are in the order they were performed in, from place to place and in each.
Order ==
  /\ \A i, j \in Waiting : i < j => At(i) < At(j)
  /\ Increasing(delivered)
  /\ Before(Range(delivered), InHand) /\ Before(Range(delivered), Pending)
  /\ Before(Range(delivered), Pushing)
  /\ Before(InHand, Pending) /\ Before(InHand, Pushing)
  /\ Before(Pending, Pushing)

Undelivered == InHand \union Pending \union Pushing

Accounted ==
  /\ Range(delivered) \union Undelivered \union dropped = 1..Len(performed)
  /\ dropped \intersect (Range(delivered) \union Undelivered) = {}

PluginInv == PluginTypes /\ Producer /\ Consumer /\ Order /\ Accounted

----------------------------------------------------------------------------
(* Numbers                                                                 *)

\* Division with remainder.
LEMMA Division ==
  ASSUME NEW a \in Nat, NEW d \in Nat \ {0}
  PROVE  /\ a \div d \in Nat
         /\ a % d \in 0..(d - 1)
         /\ a = d * (a \div d) + (a % d)
  OBVIOUS

\* Two positions less than a capacity apart have different slots.
LEMMA OwnSlot ==
  ASSUME NEW c \in Nat \ {0}, NEW a \in Nat, NEW b \in Nat, a < b, b < a + c
  PROVE  a % c # b % c
<1> DEFINE qa == a \div c
           qb == b \div c
           ra == a % c
           rb == b % c
<1>1. qa \in Nat /\ qb \in Nat /\ a = c * qa + ra /\ b = c * qb + rb
      /\ ra \in Nat /\ rb \in Nat
  BY Division
<1> SUFFICES ASSUME ra = rb PROVE FALSE
  OBVIOUS
<1> HIDE DEF qa, qb, ra, rb
<1>2. b - a = c * (qb - qa)
  BY <1>1
<1>3. CASE qb - qa <= 0
  BY <1>1, <1>2, <1>3
<1>4. CASE qb - qa >= 1
  <2>1. c * (qb - qa) >= c
    BY <1>1, <1>4
  <2> QED BY <1>2, <2>1
<1> QED BY <1>1, <1>3, <1>4

\* An interval and the one that follows it.
LEMMA JoinedIntervals ==
  ASSUME NEW a \in Int, NEW b \in Int, NEW c \in Int, a <= b, b <= c
  PROVE  a..(c - 1) = a..(b - 1) \union b..(c - 1)
  OBVIOUS

Less == {p \in Nat \X Nat : p[1] < p[2]}

\* A set of natural numbers has a least one.
LEMMA LeastNumber ==
  ASSUME NEW T, T \subseteq Nat, T # {}
  PROVE  \E n \in T : \A m \in T : n <= m
<1>1. Less = OpToRel(<, Nat)
  BY Zenon DEF Less, OpToRel
<1>2. IsWellFoundedOn(Less, Nat)
  BY <1>1, NatLessThanWellFounded, Zenon
<1>3. PICK x \in T : \A y \in T : ~(<<y, x>> \in Less)
  BY <1>2, WFMin
<1>4. \A y \in T : ~(y < x)
  BY <1>3 DEF Less
<1> QED BY <1>4

----------------------------------------------------------------------------
(* What a block exposes is a part of its batch.                            *)
LEMMA ExposedPart ==
  ASSUME NEW batch \in Seq(Nat)
  PROVE  Exposed(batch) \in 0..Len(batch)
<1> DEFINE Fits(n) == Exposable(SubSeq(batch, 1, n))
           Ends == {n \in 0..Len(batch) : n < Len(batch) => ~Fits(n + 1)}
<1>1. Len(batch) \in Ends /\ Ends \subseteq Nat
  OBVIOUS
<1>2. PICK n \in Ends : \A m \in Ends : n <= m
  <2> HIDE DEF Ends
  <2> QED BY <1>1, LeastNumber
<1>3. Fits(n)
  <2>1. CASE n = 0
    <3>1. SubSeq(batch, 1, 0) = << >>
      BY SubSeqEmpty
    <3>2. {performed[(<< >>)[i]] : i \in DOMAIN << >>} = {}
      OBVIOUS
    <3>3. Cardinality({}) <= MaxQueues
      BY FS_EmptySet, EditsAssumption
    <3>4. Exposable(<< >>)
      BY <3>2, <3>3, Zenon DEF Exposable
    <3> QED BY <2>1, <3>1, <3>4
  <2>2. CASE n # 0
    <3>1. n - 1 \in 0..Len(batch) /\ n - 1 < Len(batch) /\ (n - 1) + 1 = n
      BY <2>2
    <3>2. n - 1 \notin Ends
      BY <1>2, <3>1
    <3> QED BY <3>1, <3>2
  <2> QED BY <2>1, <2>2
<1>4. \E m \in 0..Len(batch) : /\ Exposable(SubSeq(batch, 1, m))
                               /\ m < Len(batch) => ~Exposable(SubSeq(batch, 1, m + 1))
  BY <1>2, <1>3
<1> HIDE DEF Fits, Ends
<1> QED BY <1>4 DEF Exposed

----------------------------------------------------------------------------
(* The steps of the producer.                                              *)

\* Where the edits are, in numbers.
LEMMA Places ==
  ASSUME PluginInv
  PROVE  /\ Capacity \in Nat \ {0} /\ Len(performed) \in Nat
         /\ Waiting \subseteq Nat /\ Range(delivered) \subseteq 1..Len(performed)
         /\ InHand \subseteq 1..Len(performed) /\ Pending \subseteq 1..Len(performed)
         /\ Pushing \subseteq 1..Len(performed) /\ dropped \subseteq 1..Len(performed)
         /\ Pending = {At(i) : i \in Waiting}
         /\ \A i \in Nat : i % Capacity \in 0..(Capacity - 1) /\ At(i) \in Nat
<1>1. Capacity \in Nat \ {0}
  BY EditsAssumption
<1>2. Len(performed) \in Nat /\ Waiting \subseteq Nat
  BY DEF PluginInv, PluginTypes, Waiting
<1>3. \A i \in Nat : i % Capacity \in 0..(Capacity - 1)
  BY <1>1, Division
<1>4. \A i \in Nat : At(i) \in Nat
  BY <1>3 DEF At, PluginInv, PluginTypes
<1> QED BY <1>1, <1>2, <1>3, <1>4 DEF PluginInv, Accounted, Undelivered, Pending, At, Waiting

LEMMA PerformEditInv ==
  ASSUME PluginInv, NEW p \in Params, PerformEdit(p)
  PROVE  PluginInv'
<1> DEFINE n == Len(performed)
<1>1. /\ push.at = "idle" /\ performed' = Append(performed, p)
      /\ UNCHANGED <<head, tail, memory, drain, delivered>>
  BY DEF PerformEdit
<1>2. performed' \in Seq(Params) /\ Len(performed') = n + 1 /\ n \in Nat
  BY <1>1 DEF PluginInv, PluginTypes
<1>0. /\ 1..Len(performed') = 1..n \union {n + 1} /\ n + 1 \notin 1..n
      /\ \A i \in 1..n : i < n + 1
  BY <1>2
<1>p. /\ Range(delivered) \subseteq 1..n /\ InHand \subseteq 1..n /\ Pending \subseteq 1..n
      /\ dropped \subseteq 1..n /\ Waiting \subseteq Nat
  BY Places
<1> HIDE DEF n
<1>3. /\ UNCHANGED <<Waiting, Pending, InHand, Range(delivered)>>
      /\ \A i \in Nat : At(i)' = At(i)
  BY <1>1 DEF Waiting, Pending, InHand, At
<1>4. Pushing = {}
  BY <1>1 DEF Pushing
<1>5. CASE Full
  <2>1. dropped' = dropped \union {n + 1} /\ push' = push
    BY <1>5 DEF PerformEdit, n
  <2>2. Pushing' = {}
    BY <1>1, <2>1 DEF Pushing
  <2>3. PluginTypes'
    BY <1>1, <1>2, <2>1 DEF PluginInv, PluginTypes
  <2>4. Producer' /\ Consumer'
    BY <1>1, <2>1 DEF PluginInv, Producer, Consumer, At, Increasing
  <2>5. Order'
    BY <1>1, <1>3, <1>4, <1>p, <2>2 DEF PluginInv, Order, Before, Increasing
  <2>6. Accounted'
    BY <1>0, <1>3, <1>4, <1>p, <2>1, <2>2 DEF PluginInv, Accounted, n, Undelivered
  <2> QED BY <2>3, <2>4, <2>5, <2>6 DEF PluginInv
<1>6. CASE ~Full
  <2>1. dropped' = dropped /\ push' = [at |-> "store", edit |-> n + 1]
    BY <1>6 DEF PerformEdit, n
  <2>2. Pushing' = {n + 1}
    BY <2>1 DEF Pushing
  <2>3. PluginTypes'
    BY <1>1, <1>2, <2>1 DEF PluginInv, PluginTypes
  <2>4. tail < head + Capacity
    <3>1. head \in Nat /\ tail \in Nat /\ Capacity \in Nat /\ ~(tail - head >= Capacity)
      BY <1>6, Places DEF Full, PluginInv, PluginTypes
    <3> QED BY <3>1
  <2>5. Producer' /\ Consumer'
    BY <1>1, <1>2, <2>1, <2>4 DEF n, PluginInv, Producer, Consumer, At, Increasing
  <2>6. Order'
    BY <1>0, <1>1, <1>3, <1>4, <1>p, <2>2 DEF PluginInv, Order, Before, Increasing
  <2>7. Accounted'
    BY <1>0, <1>3, <1>4, <1>p, <2>1, <2>2 DEF PluginInv, Accounted, n, Undelivered
  <2> QED BY <2>3, <2>5, <2>6, <2>7 DEF PluginInv
<1> QED BY <1>5, <1>6

LEMMA PushStoreInv ==
  ASSUME PluginInv, PushStore
  PROVE  PluginInv'
<1>1. /\ push.at = "store"
      /\ memory' = [memory EXCEPT ![tail % Capacity] = push.edit]
      /\ push' = [push EXCEPT !.at = "publish"]
      /\ UNCHANGED <<performed, head, tail, drain, dropped, delivered>>
  BY DEF PushStore
<1>2. /\ head \in Nat /\ tail \in Nat /\ tail < head + Capacity
      /\ push.edit \in Nat /\ push'.at = "publish" /\ push'.edit = push.edit
  BY <1>1 DEF PluginInv, PluginTypes, Producer
<1>3. \A i \in Waiting : At(i)' = At(i)
  <2> SUFFICES ASSUME NEW i \in Waiting PROVE At(i)' = At(i)
    OBVIOUS
  <2>1. i \in Nat /\ i < tail /\ tail < i + Capacity
    <3>1. i \in head..(tail - 1)
      BY DEF Waiting
    <3>2. Capacity \in Nat
      BY EditsAssumption
    <3> QED BY <1>2, <3>1, <3>2
  <2>2. i % Capacity # tail % Capacity
    BY <1>2, <2>1, OwnSlot, Places
  <2> QED BY <1>1, <2>1, <2>2, Places DEF At, PluginInv, PluginTypes
<1>4. At(tail)' = push.edit
  BY <1>1, <1>2, Places DEF At, PluginInv, PluginTypes
<1>5. UNCHANGED <<Waiting, InHand, Range(delivered), Pushing>>
  BY <1>1, <1>2 DEF Waiting, InHand, Pushing
<1>6. Pending' = Pending
  <2>1. Pending' = {At(i)' : i \in Waiting}
    BY <1>1 DEF Pending, At, Waiting
  <2> QED BY <1>3, <2>1, Places
<1>7. PluginTypes'
  BY <1>1, <1>2, Places DEF PluginInv, PluginTypes
<1>8. Producer'
  BY <1>1, <1>2, <1>4 DEF PluginInv, Producer
<1>9. Consumer'
  <2>1. ASSUME drain.at = "copy", NEW n \in 1..Len(drain.batch)
        PROVE  head + n - 1 \in Waiting
    BY <2>1 DEF PluginInv, PluginTypes, Consumer, Waiting
  <2> QED BY <1>1, <1>3, <2>1 DEF PluginInv, Consumer, Increasing
<1>10. Order'
  BY <1>1, <1>3, <1>5, <1>6 DEF PluginInv, Order, Before, Increasing
<1>11. Accounted'
  BY <1>1, <1>5, <1>6 DEF PluginInv, Accounted, Undelivered
<1> QED BY <1>7, <1>8, <1>9, <1>10, <1>11 DEF PluginInv

LEMMA PushPublishInv ==
  ASSUME PluginInv, PushPublish
  PROVE  PluginInv'
<1>1. /\ push.at = "publish" /\ tail' = tail + 1 /\ push' = NoPush
      /\ UNCHANGED <<performed, head, memory, drain, dropped, delivered>>
  BY DEF PushPublish
<1>2. /\ head \in Nat /\ tail \in Nat /\ head <= tail /\ tail < head + Capacity
      /\ At(tail) = push.edit
  BY <1>1 DEF PluginInv, PluginTypes, Producer
<1>3. Waiting' = Waiting \union {tail} /\ \A i \in Nat : At(i)' = At(i)
  BY <1>1, <1>2 DEF Waiting, At
<1>4. Pushing = {push.edit} /\ Pushing' = {}
  BY <1>1 DEF Pushing, NoPush
<1>5. Pending' = Pending \union {push.edit}
  <2>1. Pending' = {At(i)' : i \in Waiting'}
    BY DEF Pending, At, Waiting
  <2> QED BY <1>2, <1>3, <2>1, Places
<1>6. UNCHANGED <<InHand, Range(delivered)>>
  BY <1>1 DEF InHand
<1>7. PluginTypes'
  <2>1. /\ Capacity \in Nat /\ tail' \in Nat /\ head' <= tail' /\ tail' <= head' + Capacity
        /\ push' \in [at : {"idle", "store", "publish"}, edit : Nat]
    BY <1>1, <1>2, EditsAssumption DEF NoPush, NoParameterEdit
  <2> QED BY <1>1, <2>1 DEF PluginInv, PluginTypes
<1>8. Producer' /\ Consumer'
  BY <1>1, <1>2 DEF PluginInv, PluginTypes, Producer, Consumer, NoPush, At, Increasing
<1>9. Order'
  <2>1. ASSUME NEW i \in Waiting', NEW j \in Waiting', i < j PROVE At(i)' < At(j)'
    <3>1. CASE j \in Waiting
      <4>1. i \in Waiting
        BY <1>2, <1>3, <2>1, <3>1 DEF Waiting
      <4> QED BY <1>3, <2>1, <3>1, <4>1, Places DEF PluginInv, Order
    <3>2. CASE j = tail
      <4>1. i \in Waiting
        BY <1>2, <1>3, <2>1, <3>2
      <4>2. At(i) \in Pending
        BY <4>1, Places
      <4> QED BY <1>2, <1>3, <1>4, <3>2, <4>1, <4>2, Places DEF PluginInv, Order, Before
    <3> QED BY <1>3, <3>1, <3>2
  <2>2. Increasing(delivered)'
    BY <1>1 DEF PluginInv, Order, Increasing
  <2> QED BY <1>4, <1>5, <1>6, <2>1, <2>2 DEF PluginInv, Order, Before
<1>10. Accounted'
  BY <1>1, <1>4, <1>5, <1>6 DEF PluginInv, Accounted, Undelivered
<1> QED BY <1>7, <1>8, <1>9, <1>10 DEF PluginInv

----------------------------------------------------------------------------
(* The steps of the consumer.                                              *)

LEMMA DrainBeginInv ==
  ASSUME PluginInv, DrainBegin
  PROVE  PluginInv'
<1>1. /\ drain.at = "idle" /\ drain' = [at |-> "copy", avail |-> Available, batch |-> << >>]
      /\ UNCHANGED <<performed, head, tail, memory, push, dropped, delivered>>
  BY DEF DrainBegin
<1>2. /\ head \in Nat /\ tail \in Nat /\ head <= tail /\ MaxDrain \in Nat
  BY EditsAssumption DEF PluginInv, PluginTypes
<1>p. Waiting \subseteq Nat
  BY Places
<1>3. Available \in Nat /\ Available <= tail - head
  BY <1>2 DEF Available, Least
<1>4. UNCHANGED <<Waiting, Pending, InHand, Pushing, Range(delivered)>>
      /\ \A i \in Nat : At(i)' = At(i)
  BY <1>1 DEF Waiting, Pending, InHand, Pushing, At
<1>5. PluginTypes' /\ Producer'
  BY <1>1, <1>3 DEF PluginInv, PluginTypes, Producer, At
<1>6. Consumer'
  <2>1. /\ drain'.at = "copy" /\ drain'.avail = Available /\ drain'.batch = << >>
        /\ Len(<< >>) = 0
    BY <1>1
  <2> QED BY <1>1, <1>2, <1>3, <2>1 DEF Consumer
<1>7. Order'
  BY <1>1, <1>4, <1>p DEF PluginInv, Order, Before, Increasing
<1>8. Accounted'
  BY <1>1, <1>4 DEF PluginInv, Accounted, Undelivered
<1> QED BY <1>5, <1>6, <1>7, <1>8 DEF PluginInv

LEMMA DrainCopyInv ==
  ASSUME PluginInv, DrainCopy
  PROVE  PluginInv'
<1> DEFINE n == Len(drain.batch)
           copied == At(head + n)
<1>1. /\ drain.at = "copy" /\ n < drain.avail
      /\ drain' = [drain EXCEPT !.batch = Append(@, copied)]
      /\ UNCHANGED <<performed, head, tail, memory, push, dropped, delivered>>
  BY DEF DrainCopy, At
<1>p. Waiting \subseteq Nat
  BY Places
<1>2. /\ head \in Nat /\ n \in Nat /\ drain.avail \in Nat /\ drain.avail <= tail - head
      /\ drain.batch \in Seq(Nat)
  <2>1. drain.batch \in Seq(Nat) /\ head \in Nat /\ drain.avail \in Nat
    BY DEF PluginInv, PluginTypes
  <2>2. drain.avail <= tail - head
    BY <1>1 DEF PluginInv, Consumer
  <2> QED BY <2>1, <2>2
<1>3. copied \in Nat
  <2>1. head + n \in Nat
    BY <1>2
  <2>2. \A i \in Nat : At(i) \in Nat
    BY Places
  <2> QED BY <2>1, <2>2, Zenon
<1> HIDE DEF copied
<1>4. UNCHANGED <<Waiting, Pending, InHand, Pushing, Range(delivered)>>
      /\ \A i \in Nat : At(i)' = At(i)
  <2>1. drain'.at = "copy"
    BY <1>1 DEF PluginInv, PluginTypes
  <2> QED BY <1>1, <2>1 DEF Waiting, Pending, InHand, Pushing, At
<1>5. /\ drain' \in [at : {"idle", "copy", "deliver", "done"}, avail : Nat, batch : Seq(Nat)]
      /\ drain'.at = "copy" /\ drain'.avail = drain.avail
      /\ drain'.batch = Append(drain.batch, copied)
  <2>1. drain \in [at : {"idle", "copy", "deliver", "done"}, avail : Nat, batch : Seq(Nat)]
    BY DEF PluginInv, PluginTypes
  <2>2. Append(drain.batch, copied) \in Seq(Nat)
    BY <1>2, <1>3
  <2> QED BY <1>1, <2>1, <2>2
<1>6. PluginTypes' /\ Producer'
  BY <1>1, <1>5 DEF PluginInv, PluginTypes, Producer, At
<1>7. Consumer'
  <2>1. Len(drain'.batch) = n + 1
    BY <1>2, <1>3, <1>5
  <2>2. ASSUME NEW i \in 1..(n + 1) PROVE drain'.batch[i] = At(head + i - 1)'
    <3>1. CASE i = n + 1
      <4>1. head + i - 1 = head + n /\ head + n \in Nat
        BY <1>2, <3>1
      <4>2. drain'.batch[i] = copied
        <5>1. Append(drain.batch, copied)[Len(drain.batch) + 1] = copied
          BY <1>2, <1>3
        <5> QED BY <1>5, <3>1, <5>1
      <4>3. At(head + i - 1)' = At(head + i - 1)
        BY <1>1 DEF At
      <4>4. At(head + i - 1) = copied
        BY <4>1 DEF At, copied
      <4> QED BY <4>2, <4>3, <4>4
    <3>2. CASE i \in 1..n
      <4>1. drain'.batch[i] = drain.batch[i]
        BY <1>2, <1>3, <1>5, <3>2
      <4>2. drain.batch[i] = At(head + i - 1)
        BY <1>1, <3>2 DEF PluginInv, Consumer
      <4>3. At(head + i - 1)' = At(head + i - 1)
        BY <1>1 DEF At
      <4> QED BY <4>1, <4>2, <4>3
    <3> QED BY <1>2, <3>1, <3>2
  <2> QED BY <1>1, <1>2, <1>5, <2>1, <2>2 DEF Consumer
<1>8. Order'
  BY <1>1, <1>4, <1>p DEF PluginInv, Order, Before, Increasing
<1>9. Accounted'
  BY <1>1, <1>4 DEF PluginInv, Accounted, Undelivered
<1> QED BY <1>6, <1>7, <1>8, <1>9 DEF PluginInv

LEMMA DrainPublishInv ==
  ASSUME PluginInv, DrainPublish
  PROVE  PluginInv'
<1> DEFINE n == drain.avail
           taken == {At(i) : i \in head..(head + n - 1)}
<1>1. /\ drain.at = "copy" /\ Len(drain.batch) = n
      /\ head' = head + n /\ drain' = [drain EXCEPT !.at = "deliver"]
      /\ UNCHANGED <<performed, tail, memory, push, dropped, delivered>>
  BY DEF DrainPublish, NewHead
<1>2. /\ head \in Nat /\ tail \in Nat /\ n \in Nat /\ head + n <= tail
      /\ Capacity \in Nat /\ tail <= head + Capacity
      /\ drain.batch \in Seq(Nat)
      /\ \A i \in 1..n : drain.batch[i] = At(head + i - 1)
  <2>1. /\ head \in Nat /\ tail \in Nat /\ n \in Nat /\ drain.batch \in Seq(Nat)
        /\ Capacity \in Nat /\ tail <= head + Capacity
    BY EditsAssumption DEF PluginInv, PluginTypes
  <2>2. n <= tail - head /\ \A i \in 1..n : drain.batch[i] = At(head + i - 1)
    BY <1>1 DEF PluginInv, Consumer
  <2> QED BY <2>1, <2>2
<1>3. /\ drain' \in [at : {"idle", "copy", "deliver", "done"}, avail : Nat, batch : Seq(Nat)]
      /\ drain'.at = "deliver" /\ drain'.batch = drain.batch
  BY <1>1 DEF PluginInv, PluginTypes
<1>4. InHand = {} /\ InHand' = Range(drain.batch)
  BY <1>1, <1>3 DEF InHand
<1>5. Range(drain.batch) = taken
  <2>0. DOMAIN drain.batch = 1..n
    BY <1>1, <1>2
  <2>3. Range(drain.batch) = {drain.batch[i] : i \in 1..n}
    BY <2>0 DEF Range
  <2>1. ASSUME NEW i \in head..(head + n - 1) PROVE At(i) \in Range(drain.batch)
    <3>1. i - head + 1 \in 1..n /\ head + (i - head + 1) - 1 = i
      BY <1>2
    <3>2. drain.batch[i - head + 1] = At(i)
      BY <1>2, <3>1
    <3> QED BY <2>3, <3>1, <3>2
  <2>2. ASSUME NEW i \in 1..n PROVE drain.batch[i] \in taken
    <3>1. head + i - 1 \in head..(head + n - 1)
      BY <1>2
    <3> QED BY <1>2, <3>1
  <2> QED BY <2>1, <2>2, <2>3
<1>6. /\ Waiting' = (head + n)..(tail - 1) /\ \A i \in Nat : At(i)' = At(i)
      /\ Pending' = {At(i) : i \in Waiting'}
      /\ UNCHANGED <<Pushing, Range(delivered)>>
  <2>1. Waiting' = (head + n)..(tail - 1) /\ \A i \in Nat : At(i)' = At(i)
    BY <1>1 DEF Waiting, At
  <2>2. Pending' = {At(i)' : i \in Waiting'}
    BY DEF Pending, At, Waiting
  <2>3. Waiting' \subseteq Nat
    BY <1>2, <2>1
  <2>4. Pending' = {At(i) : i \in Waiting'}
    <3>1. \A i \in Waiting' : At(i)' = At(i)
      BY <1>1 DEF At
    <3> QED BY <2>2, <3>1
  <2>5. UNCHANGED <<Pushing, Range(delivered)>>
    BY <1>1 DEF Pushing
  <2> HIDE DEF n
  <2> QED BY <2>1, <2>4, <2>5
<1>7. Waiting = head..(head + n - 1) \union Waiting'
  <2>1. Waiting = head..(tail - 1)
    BY DEF Waiting
  <2>2. head..(tail - 1) = head..(head + n - 1) \union (head + n)..(tail - 1)
    BY <1>2, JoinedIntervals
  <2> QED BY <1>6, <2>1, <2>2
<1>8. Pending = taken \union Pending'
  <2>1. Pending = {At(i) : i \in Waiting}
    BY Places
  <2> QED BY <1>6, <1>7, <2>1
<1>9. Before(taken, Pending')
  <2>1. ASSUME NEW i \in head..(head + n - 1), NEW j \in Waiting' PROVE At(i) < At(j)
    <3>1. i \in Waiting /\ j \in Waiting /\ i < j
      BY <1>2, <1>6, <1>7
    <3> QED BY <3>1 DEF PluginInv, Order
  <2> QED BY <1>6, <2>1 DEF Before
<1>10. PluginTypes' /\ Producer'
  <2>1. head' \in Nat /\ head' <= tail' /\ tail' <= head' + Capacity
    BY <1>1, <1>2
  <2>2. push.at # "idle" => tail < head' + Capacity
    BY <1>1, <1>2 DEF PluginInv, Producer
  <2> QED BY <1>1, <1>3, <2>1, <2>2 DEF PluginInv, PluginTypes, Producer, At
<1>11. Consumer'
  <2>1. ASSUME NEW i \in 1..n, NEW j \in 1..n, i < j PROVE drain.batch[i] < drain.batch[j]
    <3>1. head + i - 1 \in Waiting /\ head + j - 1 \in Waiting /\ head + i - 1 < head + j - 1
      BY <1>2, <2>1 DEF Waiting
    <3>2. At(head + i - 1) < At(head + j - 1)
      BY <3>1 DEF PluginInv, Order
    <3> QED BY <1>2, <3>2
  <2> QED BY <1>1, <1>3, <2>1 DEF Consumer, Increasing
<1> HIDE DEF taken
<1>12. Order'
  <2>1. ASSUME NEW i \in Waiting', NEW j \in Waiting', i < j PROVE At(i)' < At(j)'
    <3>1. i \in Waiting /\ j \in Waiting
      BY <1>7
    <3> QED BY <1>6, <2>1, <3>1, Places DEF PluginInv, Order
  <2>2. Increasing(delivered)'
    BY <1>1 DEF PluginInv, Order, Increasing
  <2> QED BY <1>4, <1>5, <1>6, <1>8, <1>9, <2>1, <2>2 DEF PluginInv, Order, Before
<1>13. Accounted'
  BY <1>1, <1>4, <1>5, <1>6, <1>8 DEF PluginInv, Accounted, Undelivered
<1> QED BY <1>10, <1>11, <1>12, <1>13 DEF PluginInv

LEMMA DeliverInv ==
  ASSUME PluginInv, Deliver
  PROVE  PluginInv'
<1> DEFINE batch == drain.batch
           n == Exposed(batch)
           exposed == SubSeq(batch, 1, n)
           over == SubSeq(batch, n + 1, Len(batch))
<1>1. /\ drain.at = "deliver" /\ delivered' = delivered \o exposed
      /\ dropped' = dropped \union Range(over)
      /\ drain' = [at |-> "done", avail |-> 0, batch |-> << >>]
      /\ UNCHANGED <<performed, head, tail, memory, push>>
  BY DEF Deliver, Overflow, NoDrain
<1>2. batch \in Seq(Nat) /\ delivered \in Seq(Nat) /\ n \in 0..Len(batch)
  <2>1. batch \in Seq(Nat) /\ delivered \in Seq(Nat)
    BY DEF PluginInv, PluginTypes
  <2> QED BY <2>1, ExposedPart
<1>3. Increasing(batch) /\ Increasing(delivered)
  BY <1>1 DEF PluginInv, Consumer, Order
<1> HIDE DEF n
<1>4. /\ exposed \in Seq(Nat) /\ Len(exposed) = n
      /\ \A i \in 1..n : exposed[i] = batch[i]
      /\ over \in Seq(Nat) /\ Len(over) = Len(batch) - n
      /\ \A i \in 1..(Len(batch) - n) : over[i] = batch[n + i]
  <2>1. /\ n \in Int /\ Len(batch) \in Nat /\ 1 \in Int /\ n + 1 \in Int
        /\ \A i \in 1..n : i \in 1..Len(batch)
        /\ \A i \in (n + 1)..Len(batch) : i \in 1..Len(batch)
    BY <1>2
  <2>2. /\ exposed \in Seq(Nat) /\ Len(exposed) = n
        /\ \A i \in 1..n : exposed[i] = batch[i]
    BY <1>2, <2>1
  <2>3. over \in Seq(Nat) /\ Len(over) = Len(batch) - n
    BY <1>2, <2>1
  <2>4. \A i \in 1..(Len(batch) - n) : over[i] = batch[n + i]
    BY <1>2, <2>1
  <2> QED BY <2>2, <2>3, <2>4
<1>5. Range(batch) = Range(exposed) \union Range(over)
  <2>1. Range(batch) = {batch[i] : i \in 1..Len(batch)}
    BY <1>2, RangeEquality
  <2>2. Range(exposed) = {batch[i] : i \in 1..n}
    <3>1. Range(exposed) = {exposed[i] : i \in 1..n}
      BY <1>4, RangeEquality
    <3> QED BY <1>4, <3>1
  <2>3. Range(over) = {batch[n + i] : i \in 1..(Len(batch) - n)}
    <3>1. Range(over) = {over[i] : i \in 1..(Len(batch) - n)}
      BY <1>4, RangeEquality
    <3> QED BY <1>4, <3>1
  <2>4. ASSUME NEW i \in 1..Len(batch), i \notin 1..n
        PROVE  i - n \in 1..(Len(batch) - n) /\ i = n + (i - n)
    BY <1>2, <2>4
  <2>5. ASSUME NEW i \in 1..(Len(batch) - n) PROVE n + i \in 1..Len(batch)
    BY <1>2
  <2>6. 1..n \subseteq 1..Len(batch)
    BY <1>2
  <2> HIDE DEF batch
  <2> QED BY <2>1, <2>2, <2>3, <2>4, <2>5, <2>6
<1>6. Before(Range(exposed), Range(over))
  <2>1. ASSUME NEW i \in 1..n, NEW j \in 1..(Len(batch) - n)
        PROVE  exposed[i] < over[j]
    <3>1. i \in 1..Len(batch) /\ n + j \in 1..Len(batch) /\ i < n + j
      BY <1>2
    <3>2. exposed[i] = batch[i] /\ over[j] = batch[n + j]
      BY <1>4
    <3> QED BY <1>3, <3>1, <3>2 DEF Increasing
  <2>2. Range(exposed) = {exposed[i] : i \in 1..n}
    BY <1>4, RangeEquality
  <2>3. Range(over) = {over[i] : i \in 1..(Len(batch) - n)}
    BY <1>4, RangeEquality
  <2> HIDE DEF exposed, over
  <2> QED BY <2>1, <2>2, <2>3 DEF Before
<1>7. InHand = Range(batch) /\ InHand' = {}
  BY <1>1 DEF InHand
<1>8. Range(delivered') = Range(delivered) \union Range(exposed)
  <2> HIDE DEF exposed
  <2> QED BY <1>1, <1>2, <1>4, RangeConcatenation
<1>9. UNCHANGED <<Waiting, Pending, Pushing>> /\ \A i \in Nat : At(i)' = At(i)
  BY <1>1 DEF Waiting, Pending, Pushing, At
<1>10. Increasing(delivered')
  <2> DEFINE m == Len(delivered)
  <2>1. /\ Len(delivered') = m + n /\ m \in Nat
        /\ \A i \in 1..m : delivered'[i] = delivered[i]
        /\ \A i \in (m + 1)..(m + n) : delivered'[i] = exposed[i - m]
    BY <1>1, <1>2, <1>4
  <2>2. ASSUME NEW i \in 1..(m + n), NEW j \in 1..(m + n), i < j
        PROVE  delivered'[i] < delivered'[j]
    <3>1. CASE j \in 1..m
      <4>1. i \in 1..m
        BY <2>1, <2>2, <3>1
      <4> QED BY <1>3, <2>1, <2>2, <3>1, <4>1 DEF Increasing
    <3>2. CASE i \in 1..m /\ j \notin 1..m
      <4>1. j \in (m + 1)..(m + n) /\ j - m \in 1..n
        BY <1>2, <2>1, <3>2
      <4>2. delivered[i] \in Range(delivered) /\ exposed[j - m] \in Range(batch)
        <5>1. delivered[i] \in Range(delivered)
          BY <1>2, <3>2, RangeEquality
        <5>2. exposed[j - m] \in Range(exposed)
          BY <1>4, <4>1, RangeEquality
        <5> QED BY <1>5, <5>1, <5>2
      <4> QED BY <1>7, <2>1, <3>2, <4>1, <4>2 DEF PluginInv, Order, Before
    <3>3. CASE i \notin 1..m
      <4>1. /\ i \in (m + 1)..(m + n) /\ i - m \in 1..n
            /\ j \in (m + 1)..(m + n) /\ j - m \in 1..n /\ i - m < j - m
        BY <1>2, <2>1, <2>2, <3>3
      <4>2. exposed[i - m] < exposed[j - m]
        <5>1. i - m \in 1..Len(batch) /\ j - m \in 1..Len(batch)
          BY <1>2, <4>1
        <5> QED BY <1>3, <1>4, <4>1, <5>1 DEF Increasing
      <4> QED BY <2>1, <4>1, <4>2
    <3> QED BY <3>1, <3>2, <3>3
  <2> QED BY <2>1, <2>2 DEF Increasing
<1>11. PluginTypes' /\ Producer' /\ Consumer'
  <2>1. delivered' \in Seq(Nat)
    BY <1>1, <1>2, <1>4
  <2>2. drain' \in [at : {"idle", "copy", "deliver", "done"}, avail : Nat, batch : Seq(Nat)]
        /\ drain'.at = "done"
    BY <1>1
  <2>3. PluginTypes'
    BY <1>1, <2>1, <2>2 DEF PluginInv, PluginTypes
  <2>4. Producer'
    BY <1>1 DEF PluginInv, Producer, At
  <2> QED BY <2>2, <2>3, <2>4 DEF Consumer
<1> HIDE DEF batch, exposed, over
<1>12. Order'
  <2>1. ASSUME NEW i \in Waiting', NEW j \in Waiting', i < j PROVE At(i)' < At(j)'
    <3>1. i \in Waiting /\ j \in Waiting /\ i \in Nat /\ j \in Nat
      BY <1>9, Places
    <3> QED BY <1>9, <2>1, <3>1 DEF PluginInv, Order
  <2> QED BY <1>5, <1>6, <1>7, <1>8, <1>9, <1>10, <2>1 DEF PluginInv, Order, Before
<1>13. Accounted'
  <2>1. Range(over) \intersect (Range(delivered) \union Range(exposed) \union Pending \union Pushing) = {}
    <3>1. ASSUME NEW e \in Range(over), e \in Range(delivered) \union Range(exposed) \union Pending \union Pushing
          PROVE  FALSE
      <4>1. e \in InHand /\ e \in Nat
        <5>1. InHand \subseteq Nat
          BY Places
        <5> QED BY <1>5, <1>7, <5>1
      <4>2. ~(e < e)
        BY <4>1
      <4> QED BY <1>6, <3>1, <4>1, <4>2 DEF PluginInv, Order, Before
    <3> QED BY <3>1
  <2> QED BY <1>1, <1>5, <1>7, <1>8, <1>9, <2>1 DEF PluginInv, Accounted, Undelivered
<1> QED BY <1>11, <1>12, <1>13 DEF PluginInv

----------------------------------------------------------------------------
(* The system.                                                             *)

LEMMA InitPluginInv ==
  ASSUME PluginInit
  PROVE  PluginInv
<1>1. /\ performed = << >> /\ head = 0 /\ tail = 0
      /\ memory \in [0..(Capacity - 1) -> Nat] /\ Capacity \in Nat
      /\ push = [at |-> "idle", edit |-> 0]
      /\ drain = [at |-> "idle", avail |-> 0, batch |-> << >>]
      /\ dropped = {} /\ delivered = << >>
  BY EditsAssumption DEF PluginInit, NoParameterEdit, NoPush, NoDrain
<1>2. Waiting = {} /\ Pending = {} /\ InHand = {} /\ Pushing = {}
  <2>1. 0..(0 - 1) = {}
    OBVIOUS
  <2> QED BY <1>1, <2>1 DEF Waiting, Pending, InHand, Pushing
<1>3. Range(delivered) = {} /\ Len(performed) = 0 /\ Len(delivered) = 0 /\ 1..0 = {}
  BY <1>1 DEF Range
<1>4. PluginTypes
  BY <1>1 DEF PluginTypes
<1>5. Producer /\ Consumer
  BY <1>1 DEF Producer, Consumer
<1>6. Order
  BY <1>2, <1>3 DEF Order, Before, Increasing
<1>7. Accounted
  BY <1>1, <1>2, <1>3 DEF Accounted, Undelivered
<1> QED BY <1>4, <1>5, <1>6, <1>7 DEF PluginInv

LEMMA EndPluginInv ==
  ASSUME PluginInv, EndPlugin
  PROVE  PluginInv'
<1>1. /\ drain.at \in {"done", "idle"} /\ drain' = [at |-> "idle", avail |-> 0, batch |-> << >>]
      /\ UNCHANGED <<performed, head, tail, memory, push, dropped, delivered>>
  BY DEF EndPlugin, NoDrain
<1>2. UNCHANGED <<Waiting, Pending, InHand, Pushing, Range(delivered)>>
      /\ \A i \in Nat : At(i)' = At(i)
  BY <1>1 DEF Waiting, Pending, InHand, Pushing, At
<1>3. PluginTypes' /\ Producer'
  BY <1>1 DEF PluginInv, PluginTypes, Producer, At
<1>4. Consumer'
  BY <1>1 DEF Consumer
<1>5. Order'
  BY <1>1 DEF PluginInv, Order, Before, Increasing, Waiting, Pending, InHand, Pushing, At
<1>6. Accounted'
  BY <1>1, <1>2 DEF PluginInv, Accounted, Undelivered
<1> QED BY <1>3, <1>4, <1>5, <1>6 DEF PluginInv

LEMMA NextPluginInv == PluginInv /\ [PluginNext]_pluginVars => PluginInv'
<1> SUFFICES ASSUME PluginInv, [PluginNext]_pluginVars PROVE PluginInv'
  OBVIOUS
<1>1. CASE \E p \in Params : PerformEdit(p)
  BY <1>1, PerformEditInv
<1>2. CASE Push
  BY <1>2, PushStoreInv, PushPublishInv DEF Push
<1>3. CASE Drain
  BY <1>3, DrainBeginInv, DrainCopyInv, DrainPublishInv, DeliverInv DEF Drain
<1>4. CASE EndPlugin
  BY <1>4, EndPluginInv
<1>5. CASE ToggleBypass \/ UNCHANGED pluginVars
  <2>1. UNCHANGED <<performed, head, tail, memory, push, drain, dropped, delivered>>
    BY <1>5 DEF ToggleBypass, pluginVars
  <2>2. /\ UNCHANGED <<Waiting, Pending, InHand, Pushing, Range(delivered)>>
        /\ \A i \in Nat : At(i)' = At(i)
    BY <2>1 DEF Waiting, Pending, InHand, Pushing, At
  <2>3. PluginTypes' /\ Producer'
    BY <2>1 DEF PluginInv, PluginTypes, Producer, At
  <2>4. Consumer'
    BY <2>1 DEF PluginInv, Consumer, Increasing, At
  <2>5. Order'
    BY <2>1 DEF PluginInv, Order, Before, Increasing, Waiting, Pending, InHand, Pushing, At
  <2>6. Accounted'
    BY <2>1, <2>2 DEF PluginInv, Accounted, Undelivered
  <2> QED BY <2>3, <2>4, <2>5, <2>6 DEF PluginInv
<1> QED BY <1>1, <1>2, <1>3, <1>4, <1>5 DEF PluginNext

LEMMA InvAccounts ==
  ASSUME PluginInv
  PROVE  EditsAreAccounted
<1> DEFINE places == <<Pending, InHand, Pushing, Range(delivered), dropped>>
<1>1. /\ Pending \subseteq 1..Len(performed) /\ InHand \subseteq 1..Len(performed)
      /\ Pushing \subseteq 1..Len(performed) /\ Range(delivered) \subseteq 1..Len(performed)
  BY Places
<1>2. UNION Range(places) = Pending \union InHand \union Pushing \union Range(delivered) \union dropped
  <2>1. Range(places) = {Pending, InHand, Pushing, Range(delivered), dropped}
    <3>1. DOMAIN places = {1, 2, 3, 4, 5}
      OBVIOUS
    <3> QED BY <3>1 DEF Range
  <2> QED BY <2>1
<1>3. UNION Range(places) = 1..Len(performed)
  BY <1>2 DEF PluginInv, Accounted, Undelivered
<1>4. \A i, j \in DOMAIN places : i # j => places[i] \intersect places[j] = {}
  <2>1. /\ Pending \intersect InHand = {} /\ Pending \intersect Pushing = {}
        /\ Pending \intersect Range(delivered) = {} /\ InHand \intersect Pushing = {}
        /\ InHand \intersect Range(delivered) = {} /\ Pushing \intersect Range(delivered) = {}
    <3>1. ASSUME NEW early \in SUBSET (1..Len(performed)), NEW late, Before(early, late)
          PROVE  early \intersect late = {}
      <4>1. \A e \in 1..Len(performed) : ~(e < e)
        OBVIOUS
      <4> QED BY <3>1, <4>1 DEF Before
    <3>2. /\ Before(Range(delivered), InHand) /\ Before(Range(delivered), Pending)
          /\ Before(Range(delivered), Pushing) /\ Before(InHand, Pending)
          /\ Before(InHand, Pushing) /\ Before(Pending, Pushing)
      BY DEF PluginInv, Order
    <3> QED BY <1>1, <3>1, <3>2
  <2>2. /\ dropped \intersect Pending = {} /\ dropped \intersect InHand = {}
        /\ dropped \intersect Pushing = {} /\ dropped \intersect Range(delivered) = {}
    BY DEF PluginInv, Accounted, Undelivered
  <2>3. DOMAIN places = {1, 2, 3, 4, 5}
    OBVIOUS
  <2> QED BY <2>1, <2>2, <2>3
<1>5. \A i, j \in DOMAIN delivered : i < j => delivered[i] < delivered[j]
  <2>1. Increasing(delivered) /\ DOMAIN delivered = 1..Len(delivered)
    BY DEF PluginInv, PluginTypes, Order
  <2> QED BY <2>1 DEF Increasing
<1> QED BY <1>3, <1>4, <1>5 DEF EditsAreAccounted

\* Every edit is in one place, none is lost uncounted or delivered twice, and they
\* are delivered in order, for any size of the queue, any parameters and any number
\* of edits.
THEOREM AllEditsAreAccounted == PluginSpec => []EditsAreAccounted
<1>1. PluginInit => PluginInv
  BY InitPluginInv
<1>2. PluginInv /\ [PluginNext]_pluginVars => PluginInv'
  BY NextPluginInv
<1>3. PluginInv => EditsAreAccounted
  BY InvAccounts
<1> QED BY <1>1, <1>2, <1>3, PTL DEF PluginSpec

----------------------------------------------------------------------------
(* The same in the control path.                                           *)

\* What the main thread, the watchdog and the callback do in the control path is a step
\* of the render control, or nothing that it knows of.
LEMMA PathSteps == [PathNext]_pathVars => [Next]_vars
<1> SUFFICES ASSUME [PathNext]_pathVars PROVE [Next]_vars
  OBVIOUS
<1>1. CASE UNCHANGED pathVars
  BY <1>1 DEF pathVars
<1>2. CASE Performs \/ Pushes \/ Bypasses \/ RunsChain
  BY <1>2 DEF Performs, Pushes, Bypasses, RunsChain
<1>3. CASE Changes \/ Publishes \/ Loses \/ Rebuilds \/ TakesSnapshots \/ Mixes
  BY <1>3 DEF Changes, Publishes, Loses, Rebuilds, TakesSnapshots, Mixes, Next, Callback
<1> QED BY <1>1, <1>2, <1>3 DEF PathNext

\* The callback takes no torn snapshot while it runs a plug-in besides, for any queue of
\* edits.
THEOREM PathSnapshotsAreWhole == PathSpec => []NoTornSnapshot
<1>1. PathInit => Inv
  BY InitInv DEF PathInit
<1>2. Inv /\ [PathNext]_pathVars => Inv'
  BY NextInv, PathSteps
<1> QED BY <1>1, <1>2, InvNoTorn, PTL DEF PathSpec

\* The virtual microphone carries the selected input while a plug-in is edited besides.
THEOREM PathVirtualMicIsSelected == PathSpec => []VirtualMicFollowsSource
<1>1. PathInit => Inv /\ Mic
  BY InitInv, InitMic DEF PathInit
<1>2. Inv /\ Mic /\ [PathNext]_pathVars => (Inv /\ Mic)'
  BY NextInv, NextMic, PathSteps
<1>3. PathSpec => [](Inv /\ Mic)
  BY <1>1, <1>2, PTL DEF PathSpec
<1> QED BY <1>3, MicFollows, PTL

\* The types of what is set of the sound hold, while a plug-in is edited besides.
THEOREM PathTypeCorrect == PathSpec => []TypeOK
<1>1. PathInit => Inv /\ RenderTypes
  BY InitInv, InitTypes DEF PathInit
<1>2. Inv /\ RenderTypes /\ [PathNext]_pathVars => (Inv /\ RenderTypes)'
  BY NextInv, NextTypes, PathSteps
<1>3. PathSpec => [](Inv /\ RenderTypes)
  BY <1>1, <1>2, PTL DEF PathSpec
<1> QED BY <1>3, InvTypes, PTL

----------------------------------------------------------------------------
(* The plug-in in the control path.                                        *)

\* What happens to the plug-in in the control path is a step of its own, or nothing.
LEMMA PluginSteps == [PathNext]_pathVars => [PluginNext]_pluginVars
<1> SUFFICES ASSUME [PathNext]_pathVars PROVE [PluginNext]_pluginVars
  OBVIOUS
<1>1. CASE Performs \/ Pushes \/ Bypasses \/ RunsChain \/ Mixes
  BY <1>1 DEF Performs, Pushes, Bypasses, RunsChain, Mixes, PluginNext
<1>2. CASE Changes \/ Publishes \/ Loses \/ Rebuilds \/ TakesSnapshots \/ UNCHANGED pathVars
  BY <1>2 DEF Changes, Publishes, Loses, Rebuilds, TakesSnapshots, pathVars
<1> QED BY <1>1, <1>2 DEF PathNext

\* The edits are accounted for while the callback stops and starts with the streams.
THEOREM PathEditsAreAccounted == PathSpec => []EditsAreAccounted
<1>1. PathInit => PluginInv
  BY InitPluginInv DEF PathInit
<1>2. PluginInv /\ [PathNext]_pathVars => PluginInv'
  BY PluginSteps, NextPluginInv
<1> QED BY <1>1, <1>2, InvAccounts, PTL DEF PathSpec
=============================================================================
