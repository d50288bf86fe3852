----------------------------- MODULE DailyMixer -----------------------------
(***************************************************************************)
(* The daily application's plug-in chain and what it keeps of it on disk:  *)
(* mixer-state.json, which lists the inserts, and a file for the state of  *)
(* each plug-in.  They are written now and then by the control thread, and *)
(* read at the next start, when some plug-ins may not be there.  The       *)
(* program may crash at any moment.                                        *)
(*                                                                         *)
(* A file is replaced whole (a temporary one is flushed and renamed), so   *)
(* that to write it is one step, which may fail.  An insert's id on disk   *)
(* is that of its plug-in: it is assigned at the first save, at random.    *)
(***************************************************************************)
EXTENDS DailyChain

CONSTANT MaxStarts   \* bound: how often the program is started again

ASSUME MixerAssumption == MaxStarts \in Nat

VARIABLES
  mixer,    \* mixerState: [inserts, whole] of this input
  missing,  \* missingCh0 or missingCh1: inserts that could not be loaded
  disk,     \* mixer-state.json
  blobs,    \* of each plug-in ever loaded: whether its state is on disk
  dirty,    \* mixerDirty
  saving,   \* where saveMixerState is: "blobs"; outside "no", or "failed"
            \* when the last one did
  todo,     \* the plug-ins whose state it has still to write
  starts    \* how often the program was started again

mixerVars == <<mixer, missing, disk, blobs, dirty, saving, todo, starts>>
allVars == <<vars, mixerVars>>

NoMixer == [inserts |-> <<>>, whole |-> FALSE]
Ids(inserts) == {inserts[i].proc : i \in DOMAIN inserts}
NotSaving == saving \in {"no", "failed"}

\* The entries of a list whose plug-in is one of ids, in their order.
Only(list, ids) ==
  LET among[n \in 0..Len(list)] ==
        IF n = 0 THEN <<>>
        ELSE IF list[n].proc \in ids THEN Append(among[n - 1], list[n])
        ELSE among[n - 1]
  IN  among[Len(list)]
Without(list, ids) == Only(list, Ids(list) \ ids)

\* A first start: there is no file, and the empty chain is published.
MixerInit ==
  /\ Init
  /\ mixer = NoMixer /\ disk = NoMixer /\ missing = {}
  /\ blobs = [p \in 1..MaxLoads |-> "none"]
  /\ dirty = TRUE
  /\ saving = "no" /\ todo = {}
  /\ starts = 0

----------------------------------------------------------------------------
(* The chain of DailyChain.  Whatever calls publishChain marks the mixer. *)

Edits ==
  /\ attached /\ NotSaving
  /\ Control
  /\ dirty' = (dirty \/ slots' # slots \/ bypassed' # bypassed)
  /\ UNCHANGED <<mixer, missing, disk, blobs, saving, todo, starts>>

Runs == Audio /\ UNCHANGED mixerVars

----------------------------------------------------------------------------
(* saveMixerState *)

BadRebuiltKeepsFlags ==
  Only(mixer.inserts, Ids(slots) \union missing)
    \o Without(slots, Ids(mixer.inserts))

BadRebuiltDropsMissing ==
  LET Live(p) == CHOOSE s \in Range(slots) : s.proc = p
      kept == Only(mixer.inserts, Ids(slots))
  IN  [i \in DOMAIN kept |-> Live(kept[i].proc)]
        \o Without(slots, Ids(mixer.inserts))

\* The inserts as they were listed before, brought up to date, without those that were
\* removed and with those that could not be loaded; then the new ones.
Rebuilt ==
  LET Live(p) == CHOOSE s \in Range(slots) : s.proc = p
      kept == Only(mixer.inserts, Ids(slots) \union missing)
  IN  [i \in DOMAIN kept |-> IF kept[i].proc \in Ids(slots) THEN Live(kept[i].proc)
                             ELSE kept[i]]
        \o Without(slots, Ids(mixer.inserts))

Collects ==
  /\ Idle /\ NotSaving
  /\ mixer' = [inserts |-> Rebuilt, whole |-> bypassed]
  /\ saving' = "blobs" /\ todo' = Ids(slots)
  /\ UNCHANGED <<missing, disk, blobs, dirty, starts>>

\* The loop saves when something has changed, and a chain once a minute.
Autosaves ==
  /\ attached /\ (dirty \/ slots # <<>>)
  /\ Collects
  /\ UNCHANGED vars

\* The teardown saves once more, after the audio was stopped.
Quits == Detach /\ Collects /\ UNCHANGED ownVars

\* A plug-in's state is written, or it is not and the older one stays.
WritesBlob ==
  /\ saving = "blobs"
  /\ \E p \in todo :
       /\ todo' = todo \ {p}
       /\ \/ blobs' = [blobs EXCEPT ![p] = "written"]
          \/ blobs' = [blobs EXCEPT ![p] = IF @ = "none" THEN "failed" ELSE @]
  /\ UNCHANGED <<vars, mixer, missing, disk, dirty, saving, starts>>

BadWritesMixer ==
  /\ saving = "blobs"
  /\ \/ disk' = mixer /\ saving' = IF todo = {} THEN "no" ELSE "blobs"
     \/ UNCHANGED disk /\ saving' = IF todo = {} THEN "failed" ELSE "blobs"
  /\ dirty' = FALSE
  /\ UNCHANGED <<vars, mixer, missing, blobs, todo, starts>>

\* Then the list is.  It counts as saved even when it could not be.
WritesMixer ==
  /\ saving = "blobs" /\ todo = {}
  /\ \/ disk' = mixer /\ saving' = "no"
     \/ UNCHANGED disk /\ saving' = "failed"
  /\ dirty' = FALSE
  /\ UNCHANGED <<vars, mixer, missing, blobs, todo, starts>>

----------------------------------------------------------------------------
(* A crash, or the end of a teardown, and the next start *)

\* The restored list is published, as a chain takes it.
Publishes(list, whole) ==
  /\ IF Len(list) <= MaxSlots
       THEN /\ state' = [id |-> 2, slots |-> list, whole |-> whole]
            /\ pending' = FirstSnapshot /\ turn' = "stamp"
       ELSE state' = FirstSnapshot /\ pending' = NoSnapshot /\ turn' = "idle"
  /\ blocks' = 0 /\ floor' = 0 /\ retired' = {}
  /\ quiescent' = FALSE /\ attached' = TRUE /\ cb' = IdleBlock

\* Either the file is read, and some of its plug-ins are gone, or the program is told to
\* start without it (--no-vst-restore) or cannot open it, and begins with nothing.
Starts(reads, gone) ==
  /\ starts < MaxStarts /\ starts' = starts + 1
  /\ mixer' = IF reads THEN disk ELSE NoMixer
  /\ missing' = gone
  /\ slots' = Without(mixer'.inserts, gone)
  /\ bypassed' = mixer'.whole
  /\ Publishes(slots', bypassed')
  /\ retiring' = {} /\ selected' = 0 /\ editor' = 0 /\ openSlot' = 0
  /\ dirty' = TRUE /\ saving' = "no" /\ todo' = {}
  /\ UNCHANGED <<disk, blobs, loads>>

Restarts ==
  \/ \E gone \in SUBSET Ids(disk.inserts) : Starts(TRUE, gone)
  \/ Starts(FALSE, {})

MixerNext ==
  \/ Edits \/ Runs
  \/ Autosaves \/ Quits \/ WritesBlob \/ WritesMixer
  \/ Restarts

MixerSpec == MixerInit /\ [][MixerNext]_allVars

----------------------------------------------------------------------------
(* Properties *)

\* Every variable has its type.
MixerTypeOK ==
  /\ TypeOK
  /\ \A m \in {mixer, disk} : m.inserts \in Seq(Slots) /\ m.whole \in BOOLEAN
  /\ missing \subseteq 1..MaxLoads
  /\ blobs \in [1..MaxLoads -> {"none", "written", "failed"}]
  /\ dirty \in BOOLEAN
  /\ saving \in {"no", "failed", "blobs"}
  /\ todo \subseteq 1..MaxLoads
  /\ starts \in 0..MaxStarts

\* A plug-in is in mixer-state.json only after its own state was written or could not be:
\* a crash in the middle of a save leaves no insert that starts from factory settings.
StateBeforeInsert == \A p \in Ids(disk.inserts) : blobs[p] # "none"

\* An insert whose plug-in was not there at the start stays on disk, to be loaded again
\* when the plug-in is back, through every edit, save and crash of the session.
MissingAreKept == missing \subseteq Ids(disk.inserts)

\* What was saved is what is there: once a save has ended well and nothing was changed
\* since, a start would bring back every insert with its bypass flag, and no other.
SavedIsLive ==
  saving = "no" /\ ~dirty =>
    /\ disk.whole = bypassed
    /\ {e \in Range(disk.inserts) : e.proc \notin missing} = Range(slots)
=============================================================================
