------------------------ MODULE CaptureControlProofs ------------------------
(***************************************************************************)
(* Proofs about CaptureControl for any number of handles and of regions.   *)
(***************************************************************************)
EXTENDS CaptureControl, FiniteSetTheorems, TLAPS

Holds(t, r) == mine[t] = r /\ pc[t] \in Held

\* A region's pages are locked for as long as it is published or in the hand of one
\* thread, never both and never of two.
Owned ==
  /\ \A t \in Threads : pc[t] \in Held => mine[t] # 0
  /\ \A r \in Regions :
       region[r].mem = "live" <=> (active = r \/ \E t \in Threads : Holds(t, r))
  /\ \A r \in Regions, t \in Threads :
       Holds(t, r) => active # r /\ \A u \in Threads : Holds(u, r) => u = t

\* The reference that a fill has taken is what a retiring thread waits for.
Filling ==
  \A r \in Regions :
    /\ region[r].refs = IF fill = r THEN 1 ELSE 0
    /\ fill = r => region[r].mem = "live"

\* The places at which the region in hand was never published nor connected.
Unpublished == {"describe", "header", "dropmdl", "dropregion"}

\* No fill has got hold of a region that was never published, so that a CONNECT that
\* fails may free it without waiting.
Unfilled == \A t \in Threads : pc[t] \in Unpublished => fill # mine[t]

Safe == TypeOK /\ Owned /\ Filling /\ Unfilled

----------------------------------------------------------------------------
(* Requests that are serialized.                                           *)

Consistent ==
  /\ connected <=> active # 0
  /\ connected => connectedFile = region[active].client /\ connectedFile \in opened

\* What the globals are while the one request is at each of its places.
Stage(t) ==
  /\ pc[t] \in Unpublished \union {"init", "publish"}
       => ~connected /\ active = 0 /\ t \in opened
  /\ pc[t] \in Unpublished \union {"publish"} => region[mine[t]].client = t
  /\ pc[t] # "freeprevious"
  /\ pc[t] \in {"own", "ownfile"} => region[active].client = t /\ t \in opened /\ active # 0
  /\ pc[t] = "own" => ~connected
  /\ pc[t] = "ownfile" => connected
  /\ pc[t] = "unbind" => connected /\ active # 0
  /\ pc[t] \in {"clear", "free", "disown"} => connected /\ active = 0
  /\ pc[t] = "disownfile" => ~connected /\ active = 0
  /\ pc[t] \in {"reset", "query"} => Consistent

Serial ==
  serialized =>
    /\ \A t, u \in Threads : InKernel(t) /\ InKernel(u) => t = u
    /\ \A t \in Threads : Stage(t)
    /\ Quiescent => Consistent

\* The header of a region says that it is connected from just before the region is
\* published until the request that takes it back clears it.
Flagged ==
  serialized =>
    \A r \in Regions : region[r].flag = "set" =>
      active = r \/ \E t \in Threads : mine[t] = r /\ pc[t] \in {"publish", "clear"}

----------------------------------------------------------------------------
\* A thread goes to another place.
LEMMA Goes ==
  ASSUME NEW t, NEW place \in Place, GoTo(t, place), pc \in [Threads -> Place]
  PROVE  /\ pc' \in [Threads -> Place]
         /\ \A u \in Threads : pc'[u] = IF u = t THEN place ELSE pc[u]
BY DEF GoTo

\* A region's record, with one of its fields changed.
LEMMA Fields ==
  ASSUME NEW v \in Region
  PROVE  /\ v.mem \in {"none", "live", "freed"} /\ v.refs \in 0..1
         /\ v.client \in Handles \union {NoHandle} /\ v.flag \in {"clear", "set", "late"}
         /\ \A m \in {"none", "live", "freed"} : [v EXCEPT !.mem = m] \in Region
         /\ \A n \in 0..1 : [v EXCEPT !.refs = n] \in Region
         /\ \A f \in {"clear", "set", "late"} : [v EXCEPT !.flag = f] \in Region
BY DEF Region

\* The places that actions name.
LEMMA AllPlaces ==
  \A place \in {"idle", "attach", "init", "describe", "header", "dropmdl", "dropregion",
                "publish", "freeprevious", "own", "ownfile", "unbind", "clear", "free",
                "disown", "disownfile", "reset", "query"} :
    place \in Place
BY DEF Place

\* What is published and what a thread has are regions or none.
LEMMA RegionOrNone ==
  ASSUME TypeOK
  PROVE  /\ 0 \in 0..MaxRegions /\ Regions \subseteq 0..MaxRegions
         /\ \A r \in 0..MaxRegions : r # 0 => r \in Regions
         /\ \A t, r : t \in Threads /\ r \in 0..MaxRegions
              => [mine EXCEPT ![t] = r] \in [Threads -> 0..MaxRegions]
<1>1. MaxRegions \in Nat
  BY ControlAssumption
<1> QED BY <1>1 DEF TypeOK, Regions

\* A region that changes within its type.
LEMMA RegionChanges ==
  ASSUME TypeOK, NEW r \in Regions
  PROVE  /\ \A v \in Region : [region EXCEPT ![r] = v] \in [Regions -> Region]
         /\ \A m \in {"none", "live", "freed"} :
              [region EXCEPT ![r].mem = m] \in [Regions -> Region]
         /\ \A n \in 0..1 : [region EXCEPT ![r].refs = n] \in [Regions -> Region]
         /\ \A f \in {"clear", "set", "late"} :
              [region EXCEPT ![r].flag = f] \in [Regions -> Region]
<1>1. region \in [Regions -> Region] /\ region[r] \in Region
  BY DEF TypeOK
<1> QED BY <1>1, Fields

\* A step that changes neither the handles nor the fill.
LEMMA RequestTypes ==
  ASSUME TypeOK, UNCHANGED requestVars, region' \in [Regions -> Region],
         active' \in 0..MaxRegions, connected' \in BOOLEAN,
         connectedFile' \in Handles \union {NoHandle},
         NEW t, NEW place \in Place, GoTo(t, place),
         mine' \in [Threads -> 0..MaxRegions]
  PROVE  TypeOK'
BY Goes DEF TypeOK, requestVars

\* A thread with a region in hand has one.
LEMMA InHand ==
  ASSUME Safe, NEW t \in Threads, pc[t] \in Held
  PROVE  /\ mine[t] \in Regions /\ region[mine[t]].mem = "live" /\ active # mine[t]
         /\ \A u \in Threads : Holds(u, mine[t]) => u = t
<1>1. mine[t] \in Regions
  BY RegionOrNone DEF Safe, Owned, TypeOK
<1>2. Holds(t, mine[t])
  BY DEF Holds
<1> QED BY <1>1, <1>2 DEF Safe, Owned

\* A sink sets the flag of one region; it is late unless the flag was set already.
LEMMA SinkFlags ==
  ASSUME NEW t, AttachSink(t)
  PROVE  \E r \in Regions, f \in {"set", "late"} :
           /\ region' = [region EXCEPT ![r].flag = f]
           /\ f = "set" => region[r].flag = "set"
<1>1. PICK r \in Regions :
        region' = [region EXCEPT ![r].flag = IF @ = "set" THEN "set" ELSE "late"]
  BY DEF AttachSink
<1>2. CASE region[r].flag = "set"
  BY <1>1, <1>2
<1>3. CASE region[r].flag # "set"
  BY <1>1, <1>3
<1> QED BY <1>2, <1>3

\* Every step has its types.
LEMMA NextTypes == Safe /\ [Next]_vars => TypeOK'
<1> SUFFICES ASSUME Safe, [Next]_vars PROVE TypeOK'
  OBVIOUS
<1>1. /\ TypeOK /\ region \in [Regions -> Region] /\ active \in 0..MaxRegions
      /\ connected \in BOOLEAN /\ connectedFile \in Handles \union {NoHandle}
      /\ mine \in [Threads -> 0..MaxRegions]
  BY DEF Safe, TypeOK
<1>2. CASE UNCHANGED vars
  BY <1>1, <1>2 DEF TypeOK, vars
<1>3. ASSUME NEW t \in Threads, Proceed(t) PROVE TypeOK'
  <2>1. CASE UnbindPublish(t)
    <3>1. "disown" \in Place /\ "clear" \in Place
      BY AllPlaces
    <3> QED BY <1>1, <1>3, <2>1, <3>1, RequestTypes, RegionOrNone
            DEF UnbindPublish, PublishRegion
  <2>2. CASE UnbindClear(t)
    <3>1. mine[t] \in Regions
      BY <2>2, InHand DEF UnbindClear, Held
    <3> QED BY <1>1, <1>3, <2>2, <3>1, RequestTypes, RegionChanges, AllPlaces
            DEF UnbindClear
  <2>3. CASE UnbindFree(t)
    <3>1. mine[t] \in Regions
      BY <2>3, InHand DEF UnbindFree, Held
    <3> QED BY <1>1, <1>3, <2>3, <3>1, RequestTypes, RegionOrNone, RegionChanges, AllPlaces
            DEF UnbindFree, RetireWaitAndFree, FreeRegion
  <2>4. CASE UnbindDisown(t)
    BY <1>1, <1>3, <2>4, RequestTypes, AllPlaces DEF UnbindDisown
  <2>5. CASE UnbindDisownFile(t)
    BY <1>1, <1>3, <2>5, RequestTypes, AllPlaces DEF UnbindDisownFile
  <2>6. CASE t \in Handles /\ ConnectFails(t)
    BY <1>1, <2>6, RequestTypes, AllPlaces DEF ConnectFails
  <2>7. CASE t \in Handles /\ ConnectLock(t)
    <3>1. PICK r \in Regions :
            /\ region' = [region EXCEPT ![r] = [mem |-> "live", refs |-> 0, client |-> t,
                                                flag |-> "clear"]]
            /\ mine' = [mine EXCEPT ![t] = r]
      BY <2>7 DEF ConnectLock
    <3>2. [mem |-> "live", refs |-> 0, client |-> t, flag |-> "clear"] \in Region
      BY <2>7 DEF Region
    <3>3. region' \in [Regions -> Region] /\ mine' \in [Threads -> 0..MaxRegions]
      BY <1>1, <3>1, <3>2, RegionChanges, RegionOrNone
    <3> QED BY <1>1, <2>7, <3>3, RequestTypes, AllPlaces DEF ConnectLock
  <2>15. CASE t \in Handles /\ (ConnectDescribe(t) \/ ConnectHeaderFails(t))
    <3>1. PICK place \in {"header", "dropmdl", "dropregion"} : GoTo(t, place)
      BY <2>15 DEF ConnectDescribe, ConnectHeaderFails
    <3>2. place \in Place
      BY <3>1, AllPlaces
    <3> QED BY <1>1, <2>15, <3>1, <3>2, RequestTypes DEF ConnectDescribe, ConnectHeaderFails
  <2>16. CASE t \in Handles /\ ConnectHeader(t)
    <3>1. mine[t] \in Regions
      BY <1>3, <2>16, InHand DEF ConnectHeader, Held
    <3>2. region' \in [Regions -> Region]
      BY <1>1, <2>16, <3>1, RegionChanges DEF ConnectHeader
    <3> QED BY <1>1, <2>16, <3>2, RequestTypes, AllPlaces DEF ConnectHeader
  <2>17. CASE t \in Handles /\ ConnectUnwinds(t)
    <3>1. FreeRegion(t) /\ pc[t] \in Held
      BY <2>17 DEF ConnectUnwinds, Held
    <3>2. mine[t] \in Regions
      BY <1>3, <3>1, InHand
    <3>3. region' \in [Regions -> Region] /\ mine' \in [Threads -> 0..MaxRegions]
      BY <1>1, <1>3, <3>1, <3>2, RegionOrNone, RegionChanges DEF FreeRegion
    <3> QED BY <1>1, <2>17, <3>3, RequestTypes, AllPlaces DEF ConnectUnwinds
  <2>8. CASE t \in Handles /\ ConnectPublish(t)
    <3>1. "own" \in Place /\ "freeprevious" \in Place
      BY AllPlaces
    <3> QED BY <1>1, <1>3, <2>8, <3>1, RequestTypes, RegionOrNone
            DEF ConnectPublish, PublishRegion
  <2>9. CASE t \in Handles /\ ConnectFreePrevious(t)
    <3>1. mine[t] \in Regions
      BY <1>3, <2>9, InHand DEF ConnectFreePrevious, Held
    <3> QED BY <1>1, <1>3, <2>9, <3>1, RequestTypes, RegionOrNone, RegionChanges, AllPlaces
            DEF ConnectFreePrevious, RetireWaitAndFree, FreeRegion
  <2>10. CASE t \in Handles /\ ConnectOwn(t)
    BY <1>1, <2>10, RequestTypes, AllPlaces DEF ConnectOwn
  <2>11. CASE t \in Handles /\ ConnectOwnFile(t)
    BY <1>1, <2>11, RequestTypes, AllPlaces DEF ConnectOwnFile
  <2>12. CASE t \in Handles /\ AttachSink(t)
    <3>1. region' \in [Regions -> Region]
      <4>1. PICK r \in Regions, f \in {"set", "late"} : region' = [region EXCEPT ![r].flag = f]
        BY <2>12, SinkFlags
      <4> QED BY <1>1, <4>1, RegionChanges
    <3> QED BY <1>1, <2>12, <3>1, RequestTypes, AllPlaces DEF AttachSink
  <2>13. CASE t \in Handles /\ FlushReset(t)
    <3>1. active # 0 => active \in Regions
      BY <1>1, RegionOrNone
    <3>2. region' \in [Regions -> Region]
      <4>1. \/ region' = region
            \/ active # 0 /\ region' = [region EXCEPT ![active].flag = "set"]
        BY <2>13 DEF FlushReset
      <4>2. CASE active # 0 /\ region' = [region EXCEPT ![active].flag = "set"]
        <5>1. PICK r \in Regions : r = active
          BY <3>1, <4>2
        <5>2. region' = [region EXCEPT ![r].flag = "set"]
          BY <4>2, <5>1
        <5> QED BY <1>1, <5>2, RegionChanges
      <4> QED BY <1>1, <4>1, <4>2
    <3> QED BY <1>1, <2>13, <3>2, RequestTypes, AllPlaces DEF FlushReset
  <2>14. CASE t \in Handles /\ QueryRead(t)
    BY <1>1, <1>3, <2>14, RequestTypes, RegionOrNone, AllPlaces DEF QueryRead
  <2> QED BY <1>3, <2>1, <2>2, <2>3, <2>4, <2>5, <2>6, <2>7, <2>8, <2>9, <2>10, <2>11, <2>12,
             <2>13, <2>14, <2>15, <2>16, <2>17 DEF Proceed
<1>4. CASE Request
  <2>1. CASE Pause
    BY <1>1, <2>1, RequestTypes, AllPlaces DEF Pause
  <2>2. ASSUME NEW h \in Handles, ConnectCheck(h) \/ Disconnect(h) \/ FlushCheck(h)
        PROVE  TypeOK'
    BY <1>1, <2>2, RequestTypes, AllPlaces DEF ConnectCheck, Disconnect, FlushCheck
  <2>3. ASSUME NEW h \in Handles, Open(h) PROVE TypeOK'
    BY <1>1, <2>3 DEF Open, TypeOK
  <2>4. ASSUME NEW h \in Handles, Cleanup(h) PROVE TypeOK'
    <3>1. pc' \in [Threads -> Place]
      <4>1. "unbind" \in Place /\ "idle" \in Place
        BY AllPlaces
      <4> QED BY <1>1, <2>4, <4>1, Goes DEF Cleanup, TypeOK
    <3> QED BY <1>1, <2>4, <3>1 DEF Cleanup, TypeOK
  <2>5. ASSUME NEW h \in Handles, QueryPointer(h) PROVE TypeOK'
    BY <1>1, <2>5, RequestTypes, RegionOrNone, AllPlaces DEF QueryPointer, Threads
  <2> QED BY <1>4, <2>1, <2>2, <2>3, <2>4, <2>5 DEF Request
<1>5. CASE FillBegin
  <2>1. active \in Regions /\ fill = 0 /\ region' = [region EXCEPT ![active].refs = @ + 1]
    BY <1>1, <1>5, RegionOrNone DEF FillBegin
  <2>2. fill # active
    BY <2>1 DEF Regions
  <2>3. region[active].refs = 0
    BY <2>1, <2>2 DEF Safe, Filling
  <2>4. region[active].refs + 1 \in 0..1
    BY <2>3
  <2>5. region' \in [Regions -> Region]
    BY <1>1, <2>1, <2>4, RegionChanges
  <2> QED BY <1>1, <1>5, <2>5 DEF FillBegin, TypeOK
<1>6. CASE FillEnd
  <2>1. fill \in 0..MaxRegions
    BY <1>1 DEF TypeOK
  <2>2. fill \in Regions /\ region' = [region EXCEPT ![fill].refs = @ - 1]
    BY <1>1, <1>6, <2>1, RegionOrNone DEF FillEnd
  <2>3. region[fill].refs = 1
    BY <2>2 DEF Safe, Filling
  <2>4. region[fill].refs - 1 \in 0..1
    BY <2>3
  <2>5. region' \in [Regions -> Region]
    BY <1>1, <2>2, <2>4, RegionChanges
  <2> QED BY <1>1, <1>6, <2>5, RegionOrNone DEF FillEnd, TypeOK
<1> QED BY <1>2, <1>3, <1>4, <1>5, <1>6 DEF Next

----------------------------------------------------------------------------
\* A step that keeps what is published, what is in hand and the references.
LEMMA Keeps ==
  ASSUME Safe, NEW t \in Threads, active' = active, fill' = fill,
         \A r \in Regions : region'[r].mem = region[r].mem /\ region'[r].refs = region[r].refs,
         \A u \in Threads : u # t => pc'[u] = pc[u] /\ mine'[u] = mine[u],
         pc'[t] \in Held <=> pc[t] \in Held,
         pc[t] \in Held => mine'[t] = mine[t]
  PROVE  Owned' /\ Filling'
<1>1. \A u \in Threads, r \in Regions : Holds(u, r)' <=> Holds(u, r)
  BY DEF Holds
<1>2. \A u \in Threads : pc'[u] \in Held => mine'[u] # 0
  BY DEF Safe, Owned
<1>3. Owned'
  BY <1>1, <1>2 DEF Safe, Owned, Held
<1>4. Filling'
  BY DEF Safe, Filling
<1> QED BY <1>3, <1>4

\* A region in hand is freed once no fill has a reference to it.
LEMMA Frees ==
  ASSUME Safe, NEW t \in Threads, pc[t] \in Held, FreeRegion(t), fill # mine[t],
         NEW place \in Place, place \notin Held, GoTo(t, place), active' = active, fill' = fill
  PROVE  Owned' /\ Filling'
<1>1. /\ mine[t] \in Regions /\ region[mine[t]].mem = "live" /\ active # mine[t]
      /\ \A u \in Threads : Holds(u, mine[t]) => u = t
  BY InHand
<1>2. /\ region[mine[t]].refs = 0
      /\ region' = [region EXCEPT ![mine[t]].mem = "freed"]
      /\ mine' = [mine EXCEPT ![t] = 0]
  BY <1>1 DEF FreeRegion, Safe, Filling
<1>3. /\ region \in [Regions -> Region] /\ mine \in [Threads -> 0..MaxRegions]
      /\ pc \in [Threads -> Place]
  BY DEF Safe, TypeOK
<1>4. /\ region'[mine[t]].mem = "freed" /\ region'[mine[t]].refs = 0
      /\ \A r \in Regions : r # mine[t] => region'[r] = region[r]
  BY <1>1, <1>2, <1>3 DEF Region
<1>5. /\ pc'[t] \notin Held
      /\ \A u \in Threads : u # t => pc'[u] = pc[u] /\ mine'[u] = mine[u]
  BY <1>2, <1>3, Goes
<1>6. \A u \in Threads, r \in Regions :
        Holds(u, r)' <=> (Holds(u, r) /\ u # t)
  BY <1>5 DEF Holds, Held
<1>8. \A r \in Regions :
        region'[r].mem = "live" <=> (active' = r \/ \E u \in Threads : Holds(u, r)')
  <2>1. ASSUME NEW r \in Regions, r # mine[t]
        PROVE  region'[r].mem = "live" <=> (active' = r \/ \E u \in Threads : Holds(u, r)')
    <3>1. ~Holds(t, r)
      BY <2>1 DEF Holds
    <3>2. region'[r].mem = "live" <=> (active = r \/ \E u \in Threads : Holds(u, r))
      BY <1>4, <2>1 DEF Safe, Owned
    <3>3. (\E u \in Threads : Holds(u, r)') <=> (\E u \in Threads : Holds(u, r))
      BY <1>6, <3>1
    <3> QED BY <3>2, <3>3
  <2>2. ASSUME NEW r \in Regions, r = mine[t]
        PROVE  region'[r].mem # "live" /\ active' # r /\ \A u \in Threads : ~Holds(u, r)'
    BY <1>1, <1>4, <1>6, <2>2
  <2> QED BY <2>1, <2>2
<1>9. Owned'
  <2>1. \A u \in Threads : pc'[u] \in Held => mine'[u] # 0
    BY <1>5 DEF Safe, Owned, Held
  <2>2. \A r \in Regions, u \in Threads :
          Holds(u, r)' => active' # r /\ \A w \in Threads : Holds(w, r)' => w = u
    BY <1>6 DEF Safe, Owned
  <2> QED BY <1>8, <2>1, <2>2 DEF Owned, Held
<1>10. Filling'
  <2>1. ASSUME NEW r \in Regions
        PROVE  /\ region'[r].refs = IF fill = r THEN 1 ELSE 0
               /\ fill = r => region'[r].mem = "live"
    BY <1>1, <1>4 DEF Safe, Filling
  <2> QED BY <2>1 DEF Filling
<1> QED BY <1>9, <1>10

\* A region in the hand of a thread is published, and what was published is in the
\* thread's hand.
LEMMA Publishes ==
  ASSUME Safe, NEW t \in Threads, NEW r \in 0..MaxRegions, PublishRegion(t, r),
         (r = 0 /\ pc[t] \notin Held) \/ (r = mine[t] /\ pc[t] \in Held),
         NEW place \in Place, place \in Held <=> active # 0, GoTo(t, place),
         UNCHANGED <<region, fill>>
  PROVE  Owned' /\ Filling'
<1>1. /\ region \in [Regions -> Region] /\ mine \in [Threads -> 0..MaxRegions]
      /\ pc \in [Threads -> Place] /\ active \in 0..MaxRegions
  BY DEF Safe, TypeOK
<1>2. /\ active' = r /\ mine'[t] = active
      /\ pc'[t] \in Held <=> active # 0
      /\ \A u \in Threads : u # t => pc'[u] = pc[u] /\ mine'[u] = mine[u]
  BY <1>1, Goes DEF PublishRegion
<1>3. \A u \in Threads : u # t => \A q \in Regions : Holds(u, q)' <=> Holds(u, q)
  BY <1>2 DEF Holds
<1>4. \A q \in Regions : Holds(t, q)' <=> q = active
  BY <1>2, RegionOrNone DEF Holds, Regions, Safe
<1>5. \A q \in Regions : Holds(t, q) <=> q = r
  BY DEF Holds, Regions
<1>6. \A u \in Threads : pc'[u] \in Held => mine'[u] # 0
  BY <1>2 DEF Safe, Owned
<1>7. ASSUME NEW q \in Regions
      PROVE  region'[q].mem = "live" <=> (active' = q \/ \E u \in Threads : Holds(u, q)')
  <2>1. region'[q].mem = "live" <=> (active = q \/ \E u \in Threads : Holds(u, q))
    BY DEF Safe, Owned
  <2> QED BY <1>2, <1>3, <1>4, <1>5, <2>1
<1>8. ASSUME NEW q \in Regions, NEW u \in Threads, Holds(u, q)'
      PROVE  active' # q /\ \A w \in Threads : Holds(w, q)' => w = u
  <2>1. CASE u = t
    <3>1. q = active
      BY <1>4, <1>8, <2>1
    <3>2. \A w \in Threads : ~Holds(w, q)
      BY <3>1 DEF Safe, Owned
    <3> QED BY <1>2, <1>3, <1>5, <2>1, <3>2
  <2>2. CASE u # t
    <3>1. Holds(u, q)
      BY <1>3, <1>8, <2>2
    <3>2. active # q /\ \A w \in Threads : Holds(w, q) => w = u
      BY <3>1 DEF Safe, Owned
    <3> QED BY <1>2, <1>3, <1>4, <1>5, <2>2, <3>2
  <2> QED BY <2>1, <2>2
<1>9. Owned'
  BY <1>6, <1>7, <1>8 DEF Owned, Held
<1>10. Filling'
  BY DEF Safe, Filling
<1> QED BY <1>9, <1>10

\* Every step of a request keeps the regions owned.
LEMMA ProceedSafe ==
  ASSUME Safe, TypeOK', NEW t \in Threads, Proceed(t) PROVE Owned' /\ Filling'
<1>1. /\ region \in [Regions -> Region] /\ mine \in [Threads -> 0..MaxRegions]
      /\ pc \in [Threads -> Place] /\ active \in 0..MaxRegions
  BY DEF Safe, TypeOK
<1>2. CASE UnbindPublish(t)
  <2>1. 0 \in 0..MaxRegions /\ "disown" \in Place /\ "clear" \in Place
    BY RegionOrNone, AllPlaces DEF Safe
  <2> DEFINE place == IF active = 0 THEN "disown" ELSE "clear"
  <2>2. place \in Place /\ (place \in Held <=> active # 0)
    BY <2>1 DEF Held
  <2>3. PICK none \in 0..MaxRegions : none = 0
    BY <2>1
  <2>4. /\ PublishRegion(t, 0) /\ GoTo(t, place) /\ UNCHANGED <<region, fill>>
        /\ pc[t] \notin Held
    BY <1>2 DEF UnbindPublish, requestVars, Held
  <2>5. PublishRegion(t, none)
    BY <2>3, <2>4 DEF PublishRegion
  <2>6. (none = 0 /\ pc[t] \notin Held) \/ (none = mine[t] /\ pc[t] \in Held)
    BY <2>3, <2>4
  <2> HIDE DEF place
  <2> QED BY <2>2, <2>4, <2>5, <2>6, Publishes
<1>3. CASE t \in Handles /\ ConnectPublish(t)
  <2>1. mine[t] \in 0..MaxRegions /\ "own" \in Place /\ "freeprevious" \in Place
    BY <1>1, AllPlaces
  <2> DEFINE place == IF active = 0 THEN "own" ELSE "freeprevious"
  <2>2. place \in Place /\ (place \in Held <=> active # 0)
    BY <2>1 DEF Held
  <2>3. /\ PublishRegion(t, mine[t]) /\ GoTo(t, place) /\ UNCHANGED <<region, fill>>
        /\ pc[t] \in Held
    BY <1>3 DEF ConnectPublish, requestVars, Held
  <2> HIDE DEF place
  <2> QED BY <2>1, <2>2, <2>3, Publishes
<1>4. CASE UnbindFree(t)
  <2>1. fill # mine[t]
    BY <1>4, InHand DEF UnbindFree, RetireWaitAndFree, Drained, Safe, Filling, Held
  <2> QED BY <1>4, <2>1, Frees, AllPlaces DEF UnbindFree, RetireWaitAndFree, requestVars, Held
<1>5. CASE t \in Handles /\ ConnectFreePrevious(t)
  <2>1. fill # mine[t]
    BY <1>5, InHand DEF ConnectFreePrevious, RetireWaitAndFree, Drained, Safe, Filling, Held
  <2> QED BY <1>5, <2>1, Frees, AllPlaces
          DEF ConnectFreePrevious, RetireWaitAndFree, requestVars, Held
<1>17. CASE t \in Handles /\ ConnectUnwinds(t)
  <2>1. /\ FreeRegion(t) /\ GoTo(t, "idle") /\ active' = active /\ fill' = fill
        /\ pc[t] \in Held /\ pc[t] \in Unpublished
    BY <1>17 DEF ConnectUnwinds, requestVars, Held, Unpublished
  <2>2. fill # mine[t]
    BY <2>1 DEF Safe, Unfilled
  <2> QED BY <2>1, <2>2, Frees, AllPlaces DEF Held
<1>6. CASE t \in Handles /\ ConnectLock(t)
  <2>1. PICK r \in Regions :
          /\ \A q \in Regions : (region[q].mem = "none") <=> (q >= r)
          /\ region' = [region EXCEPT ![r] = [mem |-> "live", refs |-> 0, client |-> t,
                                              flag |-> "clear"]]
          /\ mine' = [mine EXCEPT ![t] = r]
    BY <1>6 DEF ConnectLock
  <2>2. region[r].mem # "live"
    BY <2>1 DEF Regions
  <2>3. active # r /\ fill # r /\ \A u \in Threads : ~Holds(u, r)
    BY <2>2 DEF Safe, Owned, Filling
  <2>4. /\ region'[r].mem = "live" /\ region'[r].refs = 0
        /\ \A q \in Regions : q # r => region'[q] = region[q]
    BY <1>1, <2>1
  <2>5. /\ active' = active /\ fill' = fill
        /\ pc[t] = "init" /\ pc'[t] = "describe" /\ mine'[t] = r
        /\ \A u \in Threads : u # t => pc'[u] = pc[u] /\ mine'[u] = mine[u]
    BY <1>1, <1>6, <2>1, Goes, AllPlaces DEF ConnectLock, requestVars
  <2>6. \A u \in Threads, q \in Regions : Holds(u, q)' <=> (Holds(u, q) \/ (u = t /\ q = r))
    BY <2>3, <2>5 DEF Holds, Held
  <2>7. \A u \in Threads : pc'[u] \in Held => mine'[u] # 0
    BY <2>5 DEF Safe, Owned, Regions
  <2>8. Owned'
    <3>1. ASSUME NEW q \in Regions
          PROVE  region'[q].mem = "live" <=> (active' = q \/ \E u \in Threads : Holds(u, q)')
      <4>1. region[q].mem = "live" <=> (active = q \/ \E u \in Threads : Holds(u, q))
        BY DEF Safe, Owned
      <4> QED BY <2>4, <2>5, <2>6, <4>1
    <3>2. ASSUME NEW q \in Regions, NEW u \in Threads, Holds(u, q)'
          PROVE  active' # q /\ \A w \in Threads : Holds(w, q)' => w = u
      <4>1. Holds(u, q) => active # q /\ \A w \in Threads : Holds(w, q) => w = u
        BY DEF Safe, Owned
      <4> QED BY <2>3, <2>5, <2>6, <3>2, <4>1
    <3> QED BY <2>7, <3>1, <3>2 DEF Owned, Held
  <2>9. Filling'
    <3>1. ASSUME NEW q \in Regions
          PROVE  /\ region'[q].refs = IF fill = q THEN 1 ELSE 0
                 /\ fill = q => region'[q].mem = "live"
      BY <2>3, <2>4 DEF Safe, Filling
    <3> QED BY <2>5, <3>1 DEF Filling
  <2> QED BY <2>8, <2>9
<1>7. ASSUME NEW r \in Regions, NEW f, region' = [region EXCEPT ![r].flag = f]
      PROVE  \A q \in Regions :
               region'[q].mem = region[q].mem /\ region'[q].refs = region[q].refs
  <2>1. region[r] \in Region
    BY <1>1
  <2> QED BY <1>1, <1>7, <2>1 DEF Region
<1>8. CASE UnbindClear(t)
  <2>1. mine[t] \in Regions
    BY <1>8, InHand DEF UnbindClear, Held
  <2> QED BY <1>1, <1>7, <1>8, <2>1, Keeps, Goes, AllPlaces DEF UnbindClear, requestVars, Held
<1>18. CASE t \in Handles /\ (ConnectDescribe(t) \/ ConnectHeaderFails(t))
  <2>1. PICK place \in {"header", "dropmdl", "dropregion"} : GoTo(t, place)
    BY <1>18 DEF ConnectDescribe, ConnectHeaderFails
  <2>2. /\ pc[t] \in Held /\ place \in Held /\ place \in Place
        /\ UNCHANGED <<region, active, fill, mine>>
    BY <1>18, <2>1, AllPlaces DEF ConnectDescribe, ConnectHeaderFails, requestVars, Held
  <2>3. pc'[t] \in Held /\ \A u \in Threads : u # t => pc'[u] = pc[u]
    BY <1>1, <2>1, <2>2, Goes
  <2> QED BY <2>2, <2>3, Keeps
<1>19. CASE t \in Handles /\ ConnectHeader(t)
  <2>1. mine[t] \in Regions
    BY <1>19, InHand DEF ConnectHeader, Held
  <2> QED BY <1>1, <1>7, <1>19, <2>1, Keeps, Goes, AllPlaces
          DEF ConnectHeader, requestVars, Held
<1>9. CASE UnbindDisown(t)
  BY <1>1, <1>9, Keeps, Goes, AllPlaces DEF UnbindDisown, requestVars, Held
<1>10. CASE UnbindDisownFile(t)
  BY <1>1, <1>10, Keeps, Goes, AllPlaces DEF UnbindDisownFile, requestVars, Held
<1>11. CASE t \in Handles /\ ConnectFails(t)
  BY <1>1, <1>11, Keeps, Goes, AllPlaces DEF ConnectFails, requestVars, Held
<1>12. CASE t \in Handles /\ ConnectOwn(t)
  BY <1>1, <1>12, Keeps, Goes, AllPlaces DEF ConnectOwn, requestVars, Held
<1>13. CASE t \in Handles /\ ConnectOwnFile(t)
  BY <1>1, <1>13, Keeps, Goes, AllPlaces DEF ConnectOwnFile, requestVars, Held
<1>14. CASE t \in Handles /\ AttachSink(t)
  <2>1. PICK r \in Regions, f \in {"set", "late"} : region' = [region EXCEPT ![r].flag = f]
    BY <1>14, SinkFlags
  <2>2. \A q \in Regions : region'[q].mem = region[q].mem /\ region'[q].refs = region[q].refs
    BY <1>7, <2>1
  <2>3. /\ pc[t] \notin Held /\ GoTo(t, "idle")
        /\ active' = active /\ fill' = fill /\ mine' = mine
    BY <1>14 DEF AttachSink, requestVars, Held
  <2>4. pc'[t] \notin Held /\ \A u \in Threads : u # t => pc'[u] = pc[u]
    BY <1>1, <2>3, Goes, AllPlaces DEF Held
  <2> QED BY <2>2, <2>3, <2>4, Keeps
<1>15. CASE t \in Handles /\ FlushReset(t)
  <2>1. active # 0 => active \in Regions
    BY <1>1, RegionOrNone DEF Safe
  <2> QED BY <1>1, <1>7, <1>15, <2>1, Keeps, Goes, AllPlaces DEF FlushReset, requestVars, Held
<1>16. CASE t \in Handles /\ QueryRead(t)
  BY <1>1, <1>16, Keeps, Goes, AllPlaces DEF QueryRead, requestVars, Held
<1> QED BY <1>2, <1>3, <1>4, <1>5, <1>6, <1>8, <1>9, <1>10, <1>11, <1>12, <1>13, <1>14, <1>15,
           <1>16, <1>17, <1>18, <1>19 DEF Proceed

\* No step lets a fill get hold of a region that was never published.
LEMMA NextUnfilled == Safe /\ [Next]_vars => Unfilled'
<1> SUFFICES ASSUME Safe, [Next]_vars PROVE Unfilled'
  OBVIOUS
<1>1. /\ mine \in [Threads -> 0..MaxRegions] /\ pc \in [Threads -> Place]
      /\ active \in 0..MaxRegions
  BY DEF Safe, TypeOK
<1>2. \A t \in Threads : pc[t] \in Unpublished
        => mine[t] # 0 /\ active # mine[t] /\ fill # mine[t]
  BY InHand DEF Unpublished, Held, Regions, Safe, Unfilled
<1>3. ASSUME fill' = fill, NEW t \in Threads,
             \A u \in Threads : u # t => pc'[u] = pc[u] /\ mine'[u] = mine[u],
             pc'[t] \in Unpublished
               => (pc[t] \in Unpublished /\ mine'[t] = mine[t]) \/ fill # mine'[t]
      PROVE  Unfilled'
  BY <1>2, <1>3 DEF Unfilled
<1>4. ASSUME fill' = fill, NEW t \in Threads, NEW place \in Place \ Unpublished,
             GoTo(t, place), \A u \in Threads : u # t => mine'[u] = mine[u]
      PROVE  Unfilled'
  BY <1>1, <1>3, <1>4, Goes
<1>5. CASE UNCHANGED vars
  BY <1>5 DEF Safe, Unfilled, vars
<1>6. ASSUME NEW t \in Threads, Proceed(t) PROVE Unfilled'
  <2>1. CASE t \in Handles /\ ConnectLock(t)
    <3>1. PICK r \in Regions :
            /\ \A q \in Regions : (region[q].mem = "none") <=> (q >= r)
            /\ mine' = [mine EXCEPT ![t] = r]
      BY <2>1 DEF ConnectLock
    <3>2. fill # r
      BY <3>1 DEF Safe, Filling, Regions
    <3>3. fill' = fill /\ GoTo(t, "describe")
      BY <2>1 DEF ConnectLock, requestVars
    <3>4. mine'[t] = r /\ \A u \in Threads : u # t => pc'[u] = pc[u] /\ mine'[u] = mine[u]
      BY <1>1, <3>1, <3>3, Goes, AllPlaces
    <3> QED BY <1>3, <3>2, <3>3, <3>4
  <2>2. CASE t \in Handles /\ (ConnectDescribe(t) \/ ConnectHeaderFails(t))
    <3>1. PICK place \in {"header", "dropmdl", "dropregion"} : GoTo(t, place)
      BY <2>2 DEF ConnectDescribe, ConnectHeaderFails
    <3>2. /\ pc[t] \in Unpublished /\ place \in Place /\ fill' = fill /\ mine' = mine
      BY <2>2, <3>1, AllPlaces DEF ConnectDescribe, ConnectHeaderFails, requestVars, Unpublished
    <3>3. \A u \in Threads : u # t => pc'[u] = pc[u]
      BY <1>1, <3>1, <3>2, Goes
    <3> QED BY <1>3, <3>2, <3>3
  <2>3. CASE /\ t \in Handles
             /\ \/ ConnectFails(t) \/ ConnectHeader(t) \/ ConnectUnwinds(t)
                \/ ConnectPublish(t) \/ ConnectFreePrevious(t) \/ ConnectOwn(t)
                \/ ConnectOwnFile(t) \/ AttachSink(t) \/ FlushReset(t) \/ QueryRead(t)
    <3>1. PICK place \in {"idle", "publish", "own", "freeprevious", "ownfile", "attach"} :
            GoTo(t, place)
      BY <2>3 DEF ConnectFails, ConnectHeader, ConnectUnwinds, ConnectPublish,
                  ConnectFreePrevious, ConnectOwn, ConnectOwnFile, AttachSink, FlushReset,
                  QueryRead
    <3>2. place \in Place \ Unpublished
      BY <3>1, AllPlaces DEF Unpublished
    <3>3. fill' = fill /\ \A u \in Threads : u # t => mine'[u] = mine[u]
      BY <1>1, <2>3 DEF ConnectFails, ConnectHeader, ConnectUnwinds, ConnectPublish,
                  ConnectFreePrevious, ConnectOwn, ConnectOwnFile, AttachSink, FlushReset,
                  QueryRead, requestVars, FreeRegion, RetireWaitAndFree, PublishRegion
    <3> QED BY <1>4, <3>1, <3>2, <3>3
  <2>4. CASE \/ UnbindPublish(t) \/ UnbindClear(t) \/ UnbindFree(t)
             \/ UnbindDisown(t) \/ UnbindDisownFile(t)
    <3>1. PICK place \in {"disown", "clear", "free", "disownfile", "idle"} : GoTo(t, place)
      BY <2>4 DEF UnbindPublish, UnbindClear, UnbindFree, UnbindDisown, UnbindDisownFile
    <3>2. place \in Place \ Unpublished
      BY <3>1, AllPlaces DEF Unpublished
    <3>3. fill' = fill /\ \A u \in Threads : u # t => mine'[u] = mine[u]
      BY <1>1, <2>4 DEF UnbindPublish, UnbindClear, UnbindFree, UnbindDisown,
                  UnbindDisownFile, requestVars, FreeRegion, RetireWaitAndFree, PublishRegion
    <3> QED BY <1>4, <3>1, <3>2, <3>3
  <2> QED BY <1>6, <2>1, <2>2, <2>3, <2>4 DEF Proceed
<1>7. CASE Request
  <2>1. ASSUME NEW h \in Handles, Open(h) PROVE Unfilled'
    BY <2>1 DEF Open, Safe, Unfilled
  <2>2. CASE Pause
    BY <1>4, <2>2, AllPlaces DEF Pause, requestVars, Threads, Unpublished
  <2>3. ASSUME NEW h \in Handles, \/ ConnectCheck(h) \/ Disconnect(h) \/ Cleanup(h)
                                  \/ FlushCheck(h) \/ QueryPointer(h)
        PROVE  Unfilled'
    <3>1. PICK place \in {"init", "unbind", "idle", "reset", "query"} : GoTo(h, place)
      BY <2>3 DEF ConnectCheck, Disconnect, Cleanup, FlushCheck, QueryPointer
    <3>2. place \in Place \ Unpublished
      BY <3>1, AllPlaces DEF Unpublished
    <3>3. fill' = fill /\ \A u \in Threads : u # h => mine'[u] = mine[u]
      BY <1>1, <2>3 DEF ConnectCheck, Disconnect, Cleanup, FlushCheck, QueryPointer,
                        requestVars
    <3> QED BY <1>4, <3>1, <3>2, <3>3 DEF Threads
  <2> QED BY <1>7, <2>1, <2>2, <2>3 DEF Request
<1>8. CASE FillBegin \/ FillEnd
  BY <1>2, <1>8 DEF FillBegin, FillEnd, Unfilled
<1> QED BY <1>5, <1>6, <1>7, <1>8 DEF Next

\* The step that begins a request, and the fill.
LEMMA NextSafe == Safe /\ [Next]_vars => Safe'
<1> SUFFICES ASSUME Safe, [Next]_vars PROVE Owned' /\ Filling'
  BY NextTypes, NextUnfilled DEF Safe
<1>1. /\ TypeOK' /\ region \in [Regions -> Region] /\ mine \in [Threads -> 0..MaxRegions]
      /\ pc \in [Threads -> Place] /\ active \in 0..MaxRegions /\ fill \in 0..MaxRegions
  BY NextTypes DEF Safe, TypeOK
<1>2. CASE UNCHANGED vars
  BY <1>2 DEF Safe, Owned, Filling, Holds, vars
<1>3. ASSUME NEW t \in Threads, Proceed(t) PROVE Owned' /\ Filling'
  BY <1>1, <1>3, ProceedSafe
<1>4. CASE Request
  <2>1. CASE Pause
    BY <1>1, <2>1, Keeps, Goes, AllPlaces DEF Pause, MayEnter, requestVars, Held, Threads
  <2>2. ASSUME NEW h \in Handles, ConnectCheck(h) \/ Disconnect(h) \/ FlushCheck(h)
        PROVE  Owned' /\ Filling'
    BY <1>1, <2>2, Keeps, Goes, AllPlaces
       DEF ConnectCheck, Disconnect, FlushCheck, MayEnter, requestVars, Held, Threads
  <2>3. ASSUME NEW h \in Handles, Open(h) PROVE Owned' /\ Filling'
    BY <2>3, Keeps DEF Open, Threads
  <2>4. ASSUME NEW h \in Handles, Cleanup(h) PROVE Owned' /\ Filling'
    <3>1. /\ pc[h] \notin Held /\ mine' = mine /\ UNCHANGED <<region, active, fill>>
          /\ GoTo(h, "unbind") \/ GoTo(h, "idle")
      BY <2>4 DEF Cleanup, MayClean, InKernel, Held
    <3>2. pc'[h] \notin Held /\ \A u \in Threads : u # h => pc'[u] = pc[u]
      BY <1>1, <3>1, Goes, AllPlaces DEF Held, Threads
    <3> QED BY <3>1, <3>2, Keeps DEF Threads
  <2>5. ASSUME NEW h \in Handles, QueryPointer(h) PROVE Owned' /\ Filling'
    BY <1>1, <2>5, Keeps, Goes, AllPlaces
       DEF QueryPointer, MayEnter, requestVars, Held, Threads
  <2> QED BY <1>4, <2>1, <2>2, <2>3, <2>4, <2>5 DEF Request
<1>5. ASSUME active' = active, pc' = pc, mine' = mine,
             \A q \in Regions : region'[q].mem = region[q].mem
      PROVE  Owned'
  BY <1>5 DEF Safe, Owned, Holds
<1>6. CASE FillBegin
  <2>1. /\ active \in Regions /\ fill = 0 /\ fill' = active
        /\ region' = [region EXCEPT ![active].refs = region[active].refs + 1]
    BY <1>1, <1>6, RegionOrNone DEF FillBegin, Safe
  <2>2. \A q \in Regions : region[q].refs = 0
    BY <2>1 DEF Safe, Filling, Regions
  <2>3. region[active].mem = "live"
    BY <2>1 DEF Safe, Owned
  <2>4. active' = active /\ pc' = pc /\ mine' = mine
    BY <1>6 DEF FillBegin
  <2>5. \A q \in Regions :
             /\ region'[q].mem = region[q].mem
             /\ region'[q].refs = IF q = active THEN region[active].refs + 1
                                                ELSE region[q].refs
    BY <1>1, <2>1 DEF Region
  <2>6. Filling'
    BY <2>1, <2>2, <2>3, <2>5 DEF Filling
  <2> QED BY <1>5, <2>4, <2>5, <2>6
<1>7. CASE FillEnd
  <2>1. /\ fill \in Regions /\ fill' = 0
        /\ region' = [region EXCEPT ![fill].refs = region[fill].refs - 1]
    BY <1>1, <1>7, RegionOrNone DEF FillEnd, Safe
  <2>2. \A q \in Regions : region[q].refs = IF fill = q THEN 1 ELSE 0
    BY DEF Safe, Filling
  <2>3. active' = active /\ pc' = pc /\ mine' = mine
    BY <1>7 DEF FillEnd
  <2>4. \A q \in Regions :
             /\ region'[q].mem = region[q].mem
             /\ region'[q].refs = IF q = fill THEN region[fill].refs - 1
                                              ELSE region[q].refs
    BY <1>1, <2>1 DEF Region
  <2>5. Filling'
    BY <2>1, <2>2, <2>4 DEF Filling, Regions
  <2> QED BY <1>5, <2>3, <2>4, <2>5
<1> QED BY <1>2, <1>3, <1>4, <1>6, <1>7 DEF Next

----------------------------------------------------------------------------
\* A step of the one thread that is in the kernel, or that enters it.
LEMMA OneInKernel ==
  ASSUME NEW t \in Threads, \A u \in Threads : u # t => ~InKernel(u) /\ pc'[u] = pc[u],
         Stage(t)', ~InKernel(t)' => Consistent'
  PROVE  Serial'
<1>1. \A u \in Threads : u # t => ~InKernel(u)'
  BY DEF InKernel
<1>2. \A u \in Threads : u # t => Stage(u)'
  BY <1>1 DEF InKernel, Stage, Unpublished
<1>3. \A u \in Threads : Stage(u)'
  BY <1>2
<1>4. Quiescent' => Consistent'
  BY DEF Quiescent
<1>5. \A u, w \in Threads : InKernel(u)' /\ InKernel(w)' => u = w
  BY <1>1
<1> QED BY <1>3, <1>4, <1>5 DEF Serial

\* With requests that are serialized, a request that has entered is alone.
LEMMA Alone ==
  ASSUME Serial, serialized, NEW t \in Threads, InKernel(t)
  PROVE  Stage(t) /\ \A u \in Threads : u # t => ~InKernel(u)
BY DEF Serial

\* Until it has entered nobody is in the kernel.
LEMMA Entering ==
  ASSUME Serial, serialized, NEW t \in Threads, Quiescent
  PROVE  Consistent /\ \A u \in Threads : ~InKernel(u)
BY DEF Serial, Quiescent

\* Who is client of a region never changes once it is allocated.
LEMMA ClientStays ==
  ASSUME Safe, NEW r \in Regions, NEW v
  PROVE  /\ \A q \in Regions : [region EXCEPT ![r].mem = v][q].client = region[q].client
         /\ \A q \in Regions : [region EXCEPT ![r].refs = v][q].client = region[q].client
         /\ \A q \in Regions : [region EXCEPT ![r].flag = v][q].client = region[q].client
<1>1. region \in [Regions -> Region] /\ region[r] \in Region
  BY DEF Safe, TypeOK
<1> QED BY <1>1 DEF Region

\* The step of a request that is in the kernel.
LEMMA ProceedSerial ==
  ASSUME Safe, Serial, serialized, NEW t \in Threads, Proceed(t) PROVE Serial'
<1>1. /\ TypeOK /\ region \in [Regions -> Region] /\ mine \in [Threads -> 0..MaxRegions]
      /\ pc \in [Threads -> Place] /\ active \in 0..MaxRegions
  BY DEF Safe, TypeOK
<1>2. ASSUME InKernel(t), NEW place \in Place, GoTo(t, place)
      PROVE  /\ Stage(t) /\ pc'[t] = place
             /\ \A u \in Threads : u # t => ~InKernel(u) /\ pc'[u] = pc[u]
  BY <1>1, <1>2, Alone, Goes
<1>3. active # 0 => active \in Regions
  BY <1>1, RegionOrNone
<1>4. CASE UnbindPublish(t)
  <2> DEFINE place == IF active = 0 THEN "disown" ELSE "clear"
  <2>1. place \in Place
    BY AllPlaces
  <2>2. InKernel(t) /\ GoTo(t, place) /\ pc[t] = "unbind" /\ active' = 0
        /\ connected' = connected
    BY <1>4 DEF UnbindPublish, PublishRegion, InKernel
  <2>3. Stage(t) /\ pc'[t] \in {"clear", "disown"}
        /\ \A u \in Threads : u # t => ~InKernel(u) /\ pc'[u] = pc[u]
    BY <1>2, <2>1, <2>2
  <2>4. Stage(t)' /\ InKernel(t)'
    BY <2>2, <2>3 DEF Stage, InKernel, Unpublished
  <2> QED BY <2>3, <2>4, OneInKernel
<1>5. CASE UnbindClear(t) \/ UnbindFree(t)
  <2>1. /\ InKernel(t) /\ (GoTo(t, "free") \/ GoTo(t, "disown"))
        /\ pc[t] \in {"clear", "free"} /\ active' = active /\ connected' = connected
    BY <1>5 DEF UnbindClear, UnbindFree, InKernel, requestVars
  <2>2. Stage(t) /\ pc'[t] \in {"free", "disown"}
        /\ \A u \in Threads : u # t => ~InKernel(u) /\ pc'[u] = pc[u]
    BY <1>2, <2>1, AllPlaces
  <2>3. Stage(t)' /\ InKernel(t)'
    BY <2>1, <2>2 DEF Stage, InKernel, Unpublished
  <2> QED BY <2>2, <2>3, OneInKernel
<1>6. CASE UnbindDisown(t)
  <2>1. /\ InKernel(t) /\ GoTo(t, "disownfile") /\ pc[t] = "disown"
        /\ active' = active /\ ~connected'
    BY <1>6 DEF UnbindDisown, InKernel
  <2>2. Stage(t) /\ pc'[t] = "disownfile"
        /\ \A u \in Threads : u # t => ~InKernel(u) /\ pc'[u] = pc[u]
    BY <1>2, <2>1, AllPlaces
  <2>3. Stage(t)' /\ InKernel(t)'
    BY <2>1, <2>2 DEF Stage, InKernel, Unpublished
  <2> QED BY <2>2, <2>3, OneInKernel
<1>7. CASE UnbindDisownFile(t)
  <2>1. /\ InKernel(t) /\ GoTo(t, "idle") /\ pc[t] = "disownfile"
        /\ active' = active /\ connected' = connected
    BY <1>7 DEF UnbindDisownFile, InKernel
  <2>2. Stage(t) /\ pc'[t] = "idle"
        /\ \A u \in Threads : u # t => ~InKernel(u) /\ pc'[u] = pc[u]
    BY <1>2, <2>1, AllPlaces
  <2>3. Stage(t)' /\ Consistent'
    BY <2>1, <2>2 DEF Stage, Consistent, Unpublished
  <2> QED BY <2>2, <2>3, OneInKernel
<1>8. CASE t \in Handles /\ (ConnectFails(t) \/ ConnectUnwinds(t))
  <2>1. /\ InKernel(t) /\ GoTo(t, "idle") /\ pc[t] \in {"init", "dropmdl", "dropregion"}
        /\ active' = active /\ connected' = connected
    BY <1>8 DEF ConnectFails, ConnectUnwinds, InKernel
  <2>2. Stage(t) /\ pc'[t] = "idle"
        /\ \A u \in Threads : u # t => ~InKernel(u) /\ pc'[u] = pc[u]
    BY <1>2, <2>1, AllPlaces
  <2>3. Stage(t)' /\ Consistent'
    BY <2>1, <2>2 DEF Stage, Consistent, Unpublished
  <2> QED BY <2>2, <2>3, OneInKernel
<1>9. CASE t \in Handles /\ ConnectLock(t)
  <2>1. /\ InKernel(t) /\ GoTo(t, "describe") /\ pc[t] = "init"
        /\ active' = active /\ connected' = connected /\ opened' = opened
    BY <1>9 DEF ConnectLock, InKernel, requestVars
  <2>2. Stage(t) /\ pc'[t] = "describe"
        /\ \A u \in Threads : u # t => ~InKernel(u) /\ pc'[u] = pc[u]
    BY <1>2, <2>1, AllPlaces
  <2>3. PICK r \in Regions :
          /\ region' = [region EXCEPT ![r] = [mem |-> "live", refs |-> 0, client |-> t,
                                              flag |-> "clear"]]
          /\ mine' = [mine EXCEPT ![t] = r]
    BY <1>9 DEF ConnectLock
  <2>4. mine'[t] = r /\ region'[r].client = t
    BY <1>1, <2>3
  <2>5. Stage(t)' /\ InKernel(t)'
    BY <2>1, <2>2, <2>4 DEF Stage, InKernel, Unpublished
  <2> QED BY <2>2, <2>5, OneInKernel
<1>16. CASE t \in Handles /\ (ConnectDescribe(t) \/ ConnectHeaderFails(t))
  <2>1. PICK place \in {"header", "dropmdl", "dropregion"} : GoTo(t, place)
    BY <1>16 DEF ConnectDescribe, ConnectHeaderFails
  <2>2. /\ InKernel(t) /\ pc[t] \in {"describe", "header"} /\ place \in Place
        /\ UNCHANGED <<region, mine, active, connected, opened>>
    BY <1>16, <2>1, AllPlaces DEF ConnectDescribe, ConnectHeaderFails, InKernel, requestVars
  <2>3. Stage(t) /\ pc'[t] = place
        /\ \A u \in Threads : u # t => ~InKernel(u) /\ pc'[u] = pc[u]
    BY <1>2, <2>1, <2>2
  <2>4. Stage(t)' /\ InKernel(t)'
    BY <2>1, <2>2, <2>3 DEF Stage, InKernel, Unpublished
  <2> QED BY <2>3, <2>4, OneInKernel
<1>17. CASE t \in Handles /\ ConnectHeader(t)
  <2>1. /\ InKernel(t) /\ GoTo(t, "publish") /\ pc[t] = "header" /\ mine' = mine
        /\ active' = active /\ connected' = connected /\ opened' = opened
        /\ region' = [region EXCEPT ![mine[t]].flag = "set"]
    BY <1>17 DEF ConnectHeader, InKernel, requestVars
  <2>2. Stage(t) /\ pc'[t] = "publish"
        /\ \A u \in Threads : u # t => ~InKernel(u) /\ pc'[u] = pc[u]
    BY <1>2, <2>1, AllPlaces
  <2>3. mine[t] \in Regions
    BY <2>1, InHand DEF Held
  <2>4. region'[mine[t]].client = region[mine[t]].client
    BY <2>1, <2>3, ClientStays
  <2>5. Stage(t)' /\ InKernel(t)'
    BY <2>1, <2>2, <2>4 DEF Stage, InKernel, Unpublished
  <2> QED BY <2>2, <2>5, OneInKernel
<1>10. CASE t \in Handles /\ ConnectPublish(t)
  <2>1. /\ InKernel(t) /\ pc[t] = "publish" /\ region' = region
        /\ GoTo(t, IF active = 0 THEN "own" ELSE "freeprevious")
        /\ active' = mine[t] /\ connected' = connected /\ opened' = opened
    BY <1>10 DEF ConnectPublish, PublishRegion, InKernel, requestVars
  <2>2. Stage(t) /\ active = 0
    BY <2>1, Alone DEF Stage, Unpublished
  <2>3. pc'[t] = "own" /\ \A u \in Threads : u # t => ~InKernel(u) /\ pc'[u] = pc[u]
    BY <1>2, <2>1, <2>2, AllPlaces
  <2>4. mine[t] # 0
    BY <2>1 DEF Safe, Owned, Held
  <2>5. Stage(t)' /\ InKernel(t)'
    BY <2>1, <2>2, <2>3, <2>4 DEF Stage, InKernel, Unpublished
  <2> QED BY <2>3, <2>5, OneInKernel
<1>11. CASE t \in Handles /\ ConnectFreePrevious(t)
  <2>1. InKernel(t) /\ pc[t] = "freeprevious"
    BY <1>11 DEF ConnectFreePrevious, InKernel
  <2> QED BY <2>1, Alone DEF Stage, Unpublished
<1>12. CASE t \in Handles /\ ConnectOwn(t)
  <2>1. /\ InKernel(t) /\ GoTo(t, "ownfile") /\ pc[t] = "own" /\ region' = region
        /\ active' = active /\ connected' /\ opened' = opened
    BY <1>12 DEF ConnectOwn, InKernel, requestVars
  <2>2. Stage(t) /\ pc'[t] = "ownfile"
        /\ \A u \in Threads : u # t => ~InKernel(u) /\ pc'[u] = pc[u]
    BY <1>2, <2>1, AllPlaces
  <2>3. Stage(t)' /\ InKernel(t)'
    BY <2>1, <2>2 DEF Stage, InKernel, Unpublished
  <2> QED BY <2>2, <2>3, OneInKernel
<1>13. CASE t \in Handles /\ ConnectOwnFile(t)
  <2>1. /\ InKernel(t) /\ GoTo(t, "attach") /\ pc[t] = "ownfile" /\ region' = region
        /\ active' = active /\ connected' = connected /\ opened' = opened
        /\ connectedFile' = t
    BY <1>13 DEF ConnectOwnFile, InKernel, requestVars
  <2>2. Stage(t) /\ pc'[t] = "attach"
        /\ \A u \in Threads : u # t => ~InKernel(u) /\ pc'[u] = pc[u]
    BY <1>2, <2>1, AllPlaces
  <2>3. Stage(t)' /\ Consistent'
    BY <2>1, <2>2 DEF Stage, Consistent, Unpublished
  <2> QED BY <2>2, <2>3, OneInKernel
<1>14. CASE t \in Handles /\ AttachSink(t)
  <2>1. /\ pc[t] = "attach" /\ GoTo(t, "idle")
        /\ UNCHANGED <<active, connected, connectedFile, opened, mine>>
    BY <1>14 DEF AttachSink, requestVars
  <2>2. pc'[t] = "idle" /\ \A u \in Threads : u # t => pc'[u] = pc[u]
    BY <1>1, <2>1, Goes, AllPlaces
  <2>3. PICK r \in Regions, f \in {"set", "late"} : region' = [region EXCEPT ![r].flag = f]
    BY <1>14, SinkFlags
  <2>4. \A q \in Regions : region'[q].client = region[q].client
    BY <2>3, ClientStays
  <2>5. \A u \in Threads : (InKernel(u)' <=> InKernel(u)) /\ (pc'[u] = pc[u] \/ u = t)
    BY <2>1, <2>2 DEF InKernel
  <2>6. Consistent => Consistent'
    BY <1>3, <2>1, <2>4 DEF Consistent
  <2>7. ASSUME NEW u \in Threads PROVE Stage(u)'
    <3>1. CASE u = t
      BY <2>2, <3>1 DEF Stage, Unpublished
    <3>2. CASE u # t
      <4>1. Stage(u) /\ pc'[u] = pc[u]
        BY <2>2, <3>2 DEF Serial
      <4>2. pc[u] \in Unpublished \union {"publish"} => mine[u] \in Regions
        BY InHand DEF Held, Unpublished
      <4> QED BY <1>3, <2>1, <2>4, <2>6, <4>1, <4>2 DEF Stage, Unpublished
    <3> QED BY <3>1, <3>2
  <2>8. Quiescent' => Quiescent
    BY <2>5 DEF Quiescent
  <2> QED BY <2>5, <2>6, <2>7, <2>8 DEF Serial
<1>15. CASE t \in Handles /\ (FlushReset(t) \/ QueryRead(t))
  <2>1. /\ InKernel(t) /\ GoTo(t, "idle") /\ pc[t] \in {"reset", "query"}
        /\ UNCHANGED <<active, connected, connectedFile, opened>>
    BY <1>15 DEF FlushReset, QueryRead, InKernel, requestVars
  <2>2. Stage(t) /\ pc'[t] = "idle"
        /\ \A u \in Threads : u # t => ~InKernel(u) /\ pc'[u] = pc[u]
    BY <1>2, <2>1, AllPlaces
  <2>3. region' = region \/ (active # 0 /\ region' = [region EXCEPT ![active].flag = "set"])
    BY <1>15 DEF FlushReset, QueryRead
  <2>4. \A q \in Regions : region'[q].client = region[q].client
    <3>1. CASE region' = region
      BY <3>1
    <3>2. CASE active # 0 /\ region' = [region EXCEPT ![active].flag = "set"]
      BY <1>3, <3>2, ClientStays
    <3> QED BY <2>3, <3>1, <3>2
  <2>5. Stage(t)' /\ Consistent'
    BY <1>3, <2>1, <2>2, <2>4 DEF Stage, Consistent, Unpublished
  <2> QED BY <2>2, <2>5, OneInKernel
<1> QED BY <1>4, <1>5, <1>6, <1>7, <1>8, <1>9, <1>10, <1>11, <1>12, <1>13, <1>14, <1>15,
           <1>16, <1>17 DEF Proceed

\* A request enters the kernel when it is empty; the other steps are not requests of
\* the control plane.
LEMMA NextSerial == Safe /\ Serial /\ [Next]_vars => Serial'
<1> SUFFICES ASSUME Safe, Serial, [Next]_vars, serialized PROVE Serial'
  BY DEF Serial, Next, Request, Proceed, vars, requestVars, Pause, Open, ConnectCheck,
         Disconnect, Cleanup, FlushCheck, QueryPointer, FillBegin, FillEnd, UnbindPublish,
         UnbindClear, UnbindFree, UnbindDisown, UnbindDisownFile, ConnectFails, ConnectLock,
         ConnectDescribe, ConnectHeader, ConnectHeaderFails, ConnectUnwinds, ConnectPublish,
         ConnectFreePrevious, ConnectOwn, ConnectOwnFile, AttachSink,
         FlushReset, QueryRead
<1>1. /\ region \in [Regions -> Region] /\ mine \in [Threads -> 0..MaxRegions]
      /\ pc \in [Threads -> Place] /\ active \in 0..MaxRegions
  BY DEF Safe, TypeOK
<1>2. ASSUME NEW t \in Threads, Quiescent, NEW place \in Place, GoTo(t, place)
      PROVE  /\ Consistent /\ pc'[t] = place
             /\ \A u \in Threads : u # t => ~InKernel(u) /\ pc'[u] = pc[u]
  BY <1>1, <1>2, Entering, Goes
<1>3. CASE UNCHANGED vars
  BY <1>3 DEF Serial, Stage, InKernel, Quiescent, Consistent, vars, Unpublished
<1>4. ASSUME NEW t \in Threads, Proceed(t) PROVE Serial'
  BY <1>4, ProceedSerial
<1>5. CASE Pause
  <2>1. /\ Quiescent /\ GoTo(Pnp, "unbind") /\ connected
        /\ active' = active /\ connected' = connected
    BY <1>5 DEF Pause, MayEnter
  <2>2. Consistent /\ pc'[Pnp] = "unbind"
        /\ \A u \in Threads : u # Pnp => ~InKernel(u) /\ pc'[u] = pc[u]
    BY <1>2, <2>1, AllPlaces DEF Threads
  <2>3. Stage(Pnp)' /\ InKernel(Pnp)'
    BY <2>1, <2>2 DEF Stage, InKernel, Consistent, Unpublished
  <2> QED BY <2>2, <2>3, OneInKernel DEF Threads
<1>6. ASSUME NEW h \in Handles, ConnectCheck(h) PROVE Serial'
  <2>1. /\ Quiescent /\ GoTo(h, "init") /\ ~connected /\ h \in opened
        /\ active' = active /\ connected' = connected /\ opened' = opened
    BY <1>6 DEF ConnectCheck, MayEnter, requestVars
  <2>2. Consistent /\ pc'[h] = "init"
        /\ \A u \in Threads : u # h => ~InKernel(u) /\ pc'[u] = pc[u]
    BY <1>2, <2>1, AllPlaces DEF Threads
  <2>3. Stage(h)' /\ InKernel(h)'
    BY <2>1, <2>2 DEF Stage, InKernel, Consistent, Unpublished
  <2> QED BY <2>2, <2>3, OneInKernel DEF Threads
<1>7. ASSUME NEW h \in Handles, Disconnect(h) PROVE Serial'
  <2>1. /\ Quiescent /\ GoTo(h, "unbind") /\ connected
        /\ active' = active /\ connected' = connected
    BY <1>7 DEF Disconnect, MayEnter, IsProducer
  <2>2. Consistent /\ pc'[h] = "unbind"
        /\ \A u \in Threads : u # h => ~InKernel(u) /\ pc'[u] = pc[u]
    BY <1>2, <2>1, AllPlaces DEF Threads
  <2>3. Stage(h)' /\ InKernel(h)'
    BY <2>1, <2>2 DEF Stage, InKernel, Consistent, Unpublished
  <2> QED BY <2>2, <2>3, OneInKernel DEF Threads
<1>8. ASSUME NEW h \in Handles, Cleanup(h) PROVE Serial'
  <2>1. /\ Quiescent /\ h \in opened /\ opened' = opened \ {h}
        /\ GoTo(h, IF IsProducer(h) THEN "unbind" ELSE "idle")
        /\ UNCHANGED <<region, active, connected, connectedFile>>
    BY <1>8 DEF Cleanup, MayClean
  <2>2. Consistent /\ pc'[h] = (IF IsProducer(h) THEN "unbind" ELSE "idle")
        /\ \A u \in Threads : u # h => ~InKernel(u) /\ pc'[u] = pc[u]
    <3> DEFINE place == IF IsProducer(h) THEN "unbind" ELSE "idle"
    <3>1. place \in Place
      BY AllPlaces
    <3> HIDE DEF place
    <3>2. GoTo(h, place)
      BY <2>1 DEF place
    <3>3. Consistent /\ pc'[h] = place
          /\ \A u \in Threads : u # h => ~InKernel(u) /\ pc'[u] = pc[u]
      BY <1>2, <2>1, <3>1, <3>2 DEF Threads
    <3> QED BY <3>3 DEF place
  <2>3. CASE IsProducer(h)
    <3>1. Stage(h)' /\ InKernel(h)'
      BY <2>1, <2>2, <2>3 DEF Stage, InKernel, Consistent, IsProducer, Unpublished
    <3> QED BY <2>2, <3>1, OneInKernel DEF Threads
  <2>4. CASE ~IsProducer(h)
    <3>1. Stage(h)' /\ Consistent'
      BY <2>1, <2>2, <2>4 DEF Stage, Consistent, IsProducer, Unpublished
    <3> QED BY <2>2, <3>1, OneInKernel DEF Threads
  <2> QED BY <2>3, <2>4
<1>9. ASSUME NEW h \in Handles, FlushCheck(h) PROVE Serial'
  <2>1. /\ Quiescent /\ GoTo(h, "reset")
        /\ UNCHANGED <<region, active, connected, connectedFile, opened>>
    BY <1>9 DEF FlushCheck, MayEnter, requestVars
  <2>2. Consistent /\ pc'[h] = "reset"
        /\ \A u \in Threads : u # h => ~InKernel(u) /\ pc'[u] = pc[u]
    BY <1>2, <2>1, AllPlaces DEF Threads
  <2>3. Stage(h)' /\ InKernel(h)'
    BY <2>1, <2>2 DEF Stage, InKernel, Consistent, Unpublished
  <2> QED BY <2>2, <2>3, OneInKernel DEF Threads
<1>10. ASSUME NEW h \in Handles, QueryPointer(h) PROVE Serial'
  <2>1. /\ Quiescent /\ GoTo(h, "query")
        /\ UNCHANGED <<region, active, connected, connectedFile, opened>>
    BY <1>10 DEF QueryPointer, MayEnter, requestVars
  <2>2. Consistent /\ pc'[h] = "query"
        /\ \A u \in Threads : u # h => ~InKernel(u) /\ pc'[u] = pc[u]
    BY <1>2, <2>1, AllPlaces DEF Threads
  <2>3. Stage(h)' /\ InKernel(h)'
    BY <2>1, <2>2 DEF Stage, InKernel, Consistent, Unpublished
  <2> QED BY <2>2, <2>3, OneInKernel DEF Threads
<1>11. ASSUME NEW h \in Handles, Open(h) PROVE Serial'
  <2>1. /\ opened \subseteq opened'
        /\ UNCHANGED <<region, active, connected, connectedFile, pc, mine>>
    BY <1>11 DEF Open
  <2>2. Consistent => Consistent'
    BY <2>1 DEF Consistent
  <2>3. \A u \in Threads : Stage(u) => Stage(u)'
    BY <2>1, <2>2 DEF Stage, Unpublished
  <2>4. \A u \in Threads : InKernel(u)' <=> InKernel(u)
    BY <2>1 DEF InKernel
  <2>5. Quiescent' => Quiescent
    BY <2>4 DEF Quiescent
  <2> QED BY <2>2, <2>3, <2>4, <2>5 DEF Serial
<1>12. CASE FillBegin \/ FillEnd
  <2>1. /\ UNCHANGED <<opened, active, connected, connectedFile, pc, mine>>
        /\ \A q \in Regions : region'[q].client = region[q].client
    <3>1. fill \in 0..MaxRegions
      BY DEF Safe, TypeOK
    <3>2. CASE FillBegin
      BY <1>1, <3>2, RegionOrNone, ClientStays DEF FillBegin, Safe
    <3>3. CASE FillEnd
      BY <1>1, <3>1, <3>3, RegionOrNone, ClientStays DEF FillEnd, Safe
    <3> QED BY <1>12, <3>2, <3>3
  <2>2. active # 0 => active \in Regions
    BY <1>1, RegionOrNone DEF Safe
  <2>3. Consistent => Consistent'
    BY <2>1, <2>2 DEF Consistent
  <2>4. ASSUME NEW u \in Threads PROVE Stage(u)'
    <3>1. pc[u] \in Unpublished \union {"publish"} => mine[u] \in Regions
      BY InHand DEF Held, Unpublished
    <3>2. Stage(u)
      BY DEF Serial
    <3> QED BY <2>1, <2>2, <2>3, <3>1, <3>2 DEF Stage, Unpublished
  <2>5. \A u \in Threads : InKernel(u)' <=> InKernel(u)
    BY <2>1 DEF InKernel
  <2>6. Quiescent' => Quiescent
    BY <2>5 DEF Quiescent
  <2> QED BY <2>3, <2>4, <2>5, <2>6 DEF Serial
<1> QED BY <1>3, <1>4, <1>5, <1>6, <1>7, <1>8, <1>9, <1>10, <1>11, <1>12 DEF Next, Request

----------------------------------------------------------------------------
\* A step of a thread that had no connected header to publish or to clear.
LEMMA FlagsKept ==
  ASSUME Flagged, serialized, NEW t \in Threads, active' = active,
         pc[t] \notin {"publish", "clear"},
         \A u \in Threads : u # t => pc'[u] = pc[u] /\ mine'[u] = mine[u],
         \A r \in Regions : region'[r].flag = "set"
                              => region[r].flag = "set" \/ active = r
  PROVE  Flagged'
<1>1. ASSUME NEW r \in Regions, region'[r].flag = "set", active' # r
      PROVE  \E u \in Threads : mine'[u] = r /\ pc'[u] \in {"publish", "clear"}
  BY <1>1 DEF Flagged
<1> QED BY <1>1 DEF Flagged

\* The flag of a region with another of its fields changed.
LEMMA FlagStays ==
  ASSUME Safe, NEW r \in Regions, NEW v
  PROVE  /\ \A q \in Regions : [region EXCEPT ![r].mem = v][q].flag = region[q].flag
         /\ \A q \in Regions : [region EXCEPT ![r].refs = v][q].flag = region[q].flag
         /\ \A q \in Regions : [region EXCEPT ![r].flag = v][q].flag
                                  = IF q = r THEN v ELSE region[q].flag
<1>1. region \in [Regions -> Region] /\ region[r] \in Region
  BY DEF Safe, TypeOK
<1> QED BY <1>1 DEF Region

\* Every step keeps the flags right.
LEMMA NextFlagged == Safe /\ Serial /\ Flagged /\ [Next]_vars => Flagged'
<1> SUFFICES ASSUME Safe, Serial, Flagged, [Next]_vars, serialized PROVE Flagged'
  BY DEF Flagged, Next, Request, Proceed, vars, requestVars, Pause, Open, ConnectCheck,
         Disconnect, Cleanup, FlushCheck, QueryPointer, FillBegin, FillEnd, UnbindPublish,
         UnbindClear, UnbindFree, UnbindDisown, UnbindDisownFile, ConnectFails, ConnectLock,
         ConnectDescribe, ConnectHeader, ConnectHeaderFails, ConnectUnwinds, ConnectPublish,
         ConnectFreePrevious, ConnectOwn, ConnectOwnFile, AttachSink,
         FlushReset, QueryRead
<1>1. /\ region \in [Regions -> Region] /\ mine \in [Threads -> 0..MaxRegions]
      /\ pc \in [Threads -> Place] /\ active \in 0..MaxRegions /\ fill \in 0..MaxRegions
  BY DEF Safe, TypeOK
<1>2. ASSUME NEW t \in Threads, NEW place \in Place, GoTo(t, place)
      PROVE  pc'[t] = place /\ \A u \in Threads : u # t => pc'[u] = pc[u]
  BY <1>1, <1>2, Goes
<1>3. CASE UNCHANGED vars
  BY <1>3 DEF Flagged, vars
<1>4. ASSUME NEW t \in Threads, UnbindPublish(t) PROVE Flagged'
  <2>1. /\ region' = region /\ active' = 0 /\ mine' = [mine EXCEPT ![t] = active]
        /\ pc' = [pc EXCEPT ![t] = IF active = 0 THEN "disown" ELSE "clear"]
        /\ pc[t] = "unbind"
    BY <1>4 DEF UnbindPublish, PublishRegion, GoTo
  <2>2. mine'[t] = active /\ (active # 0 => pc'[t] = "clear")
        /\ \A u \in Threads : u # t => pc'[u] = pc[u] /\ mine'[u] = mine[u]
    BY <1>1, <2>1
  <2>3. ASSUME NEW r \in Regions, region'[r].flag = "set"
        PROVE  \E u \in Threads : mine'[u] = r /\ pc'[u] \in {"publish", "clear"}
    <3>1. CASE active = r
      BY <2>2, <3>1 DEF Regions
    <3>2. CASE active # r
      BY <2>1, <2>2, <2>3, <3>2 DEF Flagged
    <3> QED BY <3>1, <3>2
  <2> QED BY <2>3 DEF Flagged
<1>5. ASSUME NEW t \in Threads, UnbindClear(t) PROVE Flagged'
  <2>1. /\ region' = [region EXCEPT ![mine[t]].flag = "clear"]
        /\ active' = active /\ mine' = mine
        /\ \A u \in Threads : u # t => pc'[u] = pc[u]
    BY <1>2, <1>5, AllPlaces DEF UnbindClear
  <2>2. mine[t] \in Regions
    BY <1>5, InHand DEF UnbindClear, Held
  <2>3. ASSUME NEW r \in Regions, region'[r].flag = "set"
        PROVE  active' = r \/ \E u \in Threads : mine'[u] = r /\ pc'[u] \in {"publish", "clear"}
    <3>1. /\ r # mine[t] => region'[r].flag = region[r].flag
          /\ r = mine[t] => region'[r].flag = "clear"
      BY <1>1, <2>1, <2>2 DEF Region
    <3>2. r # mine[t] /\ region[r].flag = "set"
      BY <2>3, <3>1
    <3> QED BY <2>1, <3>2 DEF Flagged
  <2> QED BY <2>3 DEF Flagged
<1>6. ASSUME NEW t \in Threads, UnbindFree(t) PROVE Flagged'
  <2>1. /\ region' = [region EXCEPT ![mine[t]].mem = "freed"] /\ mine[t] \in Regions
        /\ active' = active /\ mine' = [mine EXCEPT ![t] = 0] /\ pc[t] = "free"
        /\ \A u \in Threads : u # t => pc'[u] = pc[u]
    BY <1>2, <1>6, InHand, AllPlaces DEF UnbindFree, RetireWaitAndFree, FreeRegion, Held
  <2> QED BY <1>1, <2>1, FlagStays, FlagsKept
<1>7. ASSUME NEW t \in Threads, UnbindDisown(t) \/ UnbindDisownFile(t) PROVE Flagged'
  BY <1>2, <1>7, FlagsKept, AllPlaces DEF UnbindDisown, UnbindDisownFile
<1>8. ASSUME NEW t \in Handles, ConnectLock(t) PROVE Flagged'
  <2>1. PICK r \in Regions :
          /\ region' = [region EXCEPT ![r] = [mem |-> "live", refs |-> 0, client |-> t,
                                              flag |-> "clear"]]
          /\ mine' = [mine EXCEPT ![t] = r]
    BY <1>8 DEF ConnectLock
  <2>2. /\ t \in Threads /\ pc[t] = "init" /\ active' = active
        /\ \A u \in Threads : u # t => pc'[u] = pc[u] /\ mine'[u] = mine[u]
    BY <1>1, <1>2, <1>8, <2>1, AllPlaces DEF ConnectLock, Threads
  <2>3. \A q \in Regions : region'[q].flag = "set" => region[q].flag = "set"
    BY <1>1, <2>1
  <2> QED BY <2>2, <2>3, FlagsKept
<1>21. ASSUME NEW t \in Handles, ConnectDescribe(t) \/ ConnectHeaderFails(t) PROVE Flagged'
  <2>1. PICK place \in {"header", "dropmdl", "dropregion"} : GoTo(t, place)
    BY <1>21 DEF ConnectDescribe, ConnectHeaderFails
  <2>2. /\ t \in Threads /\ pc[t] \notin {"publish", "clear"} /\ place \in Place
        /\ UNCHANGED <<region, active, mine>>
    BY <1>21, <2>1, AllPlaces DEF ConnectDescribe, ConnectHeaderFails, Threads
  <2> QED BY <1>2, <2>1, <2>2, FlagsKept
<1>22. ASSUME NEW t \in Handles, ConnectHeader(t) PROVE Flagged'
  <2>1. /\ t \in Threads /\ pc[t] = "header" /\ active' = active /\ mine' = mine
        /\ region' = [region EXCEPT ![mine[t]].flag = "set"] /\ pc'[t] = "publish"
        /\ \A u \in Threads : u # t => pc'[u] = pc[u]
    BY <1>2, <1>22, AllPlaces DEF ConnectHeader, Threads
  <2>2. mine[t] \in Regions
    BY <2>1, InHand DEF Held
  <2>3. ASSUME NEW q \in Regions, region'[q].flag = "set"
        PROVE  active' = q \/ \E u \in Threads : mine'[u] = q /\ pc'[u] \in {"publish", "clear"}
    <3>1. CASE q = mine[t]
      BY <2>1, <3>1
    <3>2. CASE q # mine[t]
      <4>1. region[q].flag = "set"
        BY <2>1, <2>2, <2>3, <3>2, FlagStays
      <4> QED BY <2>1, <4>1 DEF Flagged
    <3> QED BY <3>1, <3>2
  <2> QED BY <2>3 DEF Flagged
<1>23. ASSUME NEW t \in Handles, ConnectUnwinds(t) PROVE Flagged'
  <2>1. /\ t \in Threads /\ pc[t] \in {"dropmdl", "dropregion"} /\ active' = active
        /\ region' = [region EXCEPT ![mine[t]].mem = "freed"]
        /\ mine' = [mine EXCEPT ![t] = 0]
        /\ \A u \in Threads : u # t => pc'[u] = pc[u]
    BY <1>2, <1>23, AllPlaces DEF ConnectUnwinds, FreeRegion, Threads
  <2>2. mine[t] \in Regions
    BY <2>1, InHand DEF Held
  <2> QED BY <1>1, <2>1, <2>2, FlagStays, FlagsKept
<1>9. ASSUME NEW t \in Handles, ConnectPublish(t) PROVE Flagged'
  <2>1. /\ t \in Threads /\ region' = region /\ pc[t] = "publish"
        /\ active' = mine[t] /\ mine' = [mine EXCEPT ![t] = active]
        /\ pc' = [pc EXCEPT ![t] = IF active = 0 THEN "own" ELSE "freeprevious"]
    BY <1>9 DEF ConnectPublish, PublishRegion, GoTo, Threads
  <2>2. active = 0
    BY <2>1, Alone DEF InKernel, Stage, Unpublished
  <2>3. \A u \in Threads : u # t => pc'[u] = pc[u] /\ mine'[u] = mine[u]
    BY <1>1, <2>1
  <2>4. ASSUME NEW q \in Regions, region'[q].flag = "set", active' # q
        PROVE  \E u \in Threads : mine'[u] = q /\ pc'[u] \in {"publish", "clear"}
    <3>1. active # q
      BY <2>2 DEF Regions
    <3> QED BY <2>1, <2>3, <2>4, <3>1 DEF Flagged
  <2> QED BY <2>4 DEF Flagged
<1>10. ASSUME NEW t \in Handles, ConnectFreePrevious(t) PROVE Flagged'
  BY <1>10, Alone DEF ConnectFreePrevious, InKernel, Stage, Threads, Unpublished
<1>11. ASSUME NEW t \in Handles, ConnectFails(t) \/ ConnectOwn(t) \/ ConnectOwnFile(t)
       PROVE  Flagged'
  BY <1>2, <1>11, FlagsKept, AllPlaces
     DEF ConnectFails, ConnectOwn, ConnectOwnFile, requestVars, Threads
<1>12. ASSUME NEW t \in Handles, AttachSink(t) PROVE Flagged'
  <2>1. PICK r \in Regions, f \in {"set", "late"} :
          region' = [region EXCEPT ![r].flag = f] /\ (f = "set" => region[r].flag = "set")
    BY <1>12, SinkFlags
  <2>2. \A q \in Regions : region'[q].flag = "set" => region[q].flag = "set"
    BY <2>1, FlagStays
  <2>3. /\ t \in Threads /\ pc[t] = "attach" /\ active' = active /\ mine' = mine
        /\ \A u \in Threads : u # t => pc'[u] = pc[u]
    BY <1>2, <1>12, AllPlaces DEF AttachSink, Threads
  <2> QED BY <2>2, <2>3, FlagsKept
<1>13. ASSUME NEW t \in Handles, FlushReset(t) PROVE Flagged'
  <2>1. /\ t \in Threads /\ pc[t] = "reset" /\ active' = active /\ mine' = mine
        /\ \A u \in Threads : u # t => pc'[u] = pc[u]
    BY <1>2, <1>13, AllPlaces DEF FlushReset, Threads
  <2>2. \A q \in Regions : region'[q].flag = "set"
                             => region[q].flag = "set" \/ active = q
    <3>1. CASE region' = region
      BY <3>1
    <3>2. CASE active # 0 /\ region' = [region EXCEPT ![active].flag = "set"]
      BY <1>1, <3>2, RegionOrNone, FlagStays DEF Safe
    <3> QED BY <1>13, <3>1, <3>2 DEF FlushReset
  <2> QED BY <2>1, <2>2, FlagsKept
<1>14. ASSUME NEW t \in Handles, QueryRead(t) \/ QueryPointer(t) PROVE Flagged'
  <2>1. /\ t \in Threads /\ pc[t] \in {"query", "idle"} /\ active' = active
        /\ region' = region
        /\ \A u \in Threads : u # t => pc'[u] = pc[u] /\ mine'[u] = mine[u]
    BY <1>1, <1>2, <1>14, AllPlaces DEF QueryRead, QueryPointer, MayEnter, Threads
  <2> QED BY <2>1, FlagsKept
<1>15. ASSUME NEW t \in Threads,
              /\ UNCHANGED <<region, active, mine>>
              /\ pc[t] \in {"idle", "attach"}
              /\ \A u \in Threads : u # t => pc'[u] = pc[u]
       PROVE  Flagged'
  BY <1>15, FlagsKept
<1>16. CASE Pause
  BY <1>2, <1>15, <1>16, AllPlaces DEF Pause, MayEnter, Threads
<1>17. ASSUME NEW h \in Handles, ConnectCheck(h) \/ Disconnect(h) \/ FlushCheck(h)
       PROVE  Flagged'
  BY <1>2, <1>15, <1>17, AllPlaces DEF ConnectCheck, Disconnect, FlushCheck, MayEnter, Threads
<1>18. ASSUME NEW h \in Handles, Open(h) PROVE Flagged'
  BY <1>15, <1>18 DEF Open, Threads
<1>19. ASSUME NEW h \in Handles, Cleanup(h) PROVE Flagged'
  <2>1. /\ h \in Threads /\ UNCHANGED <<region, active, mine>> /\ pc[h] \in {"idle", "attach"}
        /\ pc' = [pc EXCEPT ![h] = IF IsProducer(h) THEN "unbind" ELSE "idle"]
    BY <1>19 DEF Cleanup, MayClean, InKernel, GoTo, Threads
  <2> QED BY <1>1, <1>15, <2>1
<1>20. CASE FillBegin \/ FillEnd
  <2>1. UNCHANGED <<active, pc, mine>>
    BY <1>20 DEF FillBegin, FillEnd
  <2>2. \A q \in Regions : region'[q].flag = region[q].flag
    <3>1. CASE FillBegin
      BY <1>1, <3>1, RegionOrNone, FlagStays DEF FillBegin, Safe
    <3>2. CASE FillEnd
      BY <1>1, <3>2, RegionOrNone, FlagStays DEF FillEnd, Safe
    <3> QED BY <1>20, <3>1, <3>2
  <2> QED BY <2>1, <2>2 DEF Flagged
<1> QED BY <1>3, <1>4, <1>5, <1>6, <1>7, <1>8, <1>9, <1>10, <1>11, <1>12, <1>13, <1>14,
           <1>16, <1>17, <1>18, <1>19, <1>20, <1>21, <1>22, <1>23 DEF Next, Request, Proceed

----------------------------------------------------------------------------
\* Nothing is connected at the beginning.
LEMMA InitInv == Init => Safe /\ Serial /\ Flagged
<1> SUFFICES ASSUME Init PROVE Safe /\ Serial /\ Flagged
  OBVIOUS
<1> USE ControlAssumption
<1>1. TypeOK
  <2>1. [mem |-> "none", refs |-> 0, client |-> NoHandle, flag |-> "clear"] \in Region
    BY DEF Region
  <2>2. "idle" \in Place /\ 0 \in 0..MaxRegions
    BY DEF Place, ControlAssumption
  <2> QED BY <2>1, <2>2 DEF Init, TypeOK
<1>2. Owned
  BY DEF Init, Owned, Holds, Held, Regions
<1>3. Filling
  BY DEF Init, Filling, Regions
<1>4. Serial
  BY DEF Init, Serial, InKernel, Stage, Consistent, Unpublished
<1>5. Flagged
  BY DEF Init, Flagged
<1>6. Unfilled
  BY DEF Init, Unfilled, Unpublished
<1> QED BY <1>1, <1>2, <1>3, <1>4, <1>5, <1>6 DEF Safe


Inv == Safe /\ Serial /\ Flagged

\* The invariant holds throughout.
LEMMA Invariant == Spec => []Inv
<1>1. Inv /\ [Next]_vars => Inv'
  BY NextSafe, NextSerial, NextFlagged DEF Inv
<1> QED BY <1>1, InitInv, PTL DEF Spec, Inv

\* Places, regions and globals of the driver keep their types, for any number of
\* clients and however their requests interleave.
THEOREM ControlTypeCorrect == Spec => []TypeOK
BY Invariant, PTL DEF Inv, Safe

\* The DMA fill never reads pages that are unlocked or a descriptor that is freed, for
\* any number of clients and however their requests interleave.
THEOREM FillsAreSafe == Spec => []NoFillOnFreed
<1>1. Inv => NoFillOnFreed
  <2> SUFFICES ASSUME Inv, fill # 0 PROVE region[fill].mem = "live"
    BY DEF NoFillOnFreed
  <2>1. fill \in Regions
    BY RegionOrNone DEF Inv, Safe, TypeOK
  <2> QED BY <2>1 DEF Inv, Safe, Filling
<1> QED BY <1>1, Invariant, PTL

\* Pages that are locked are published or in the hand of exactly one request, for any
\* number of clients, however their requests interleave and wherever a CONNECT fails:
\* none is lost or freed twice.
THEOREM RegionsAreHeldOnce == Spec => []EveryRegionHasOneHolder
<1>1. Inv => EveryRegionHasOneHolder
  <2> SUFFICES ASSUME Inv, NEW r \in Regions
               PROVE  Cardinality(Holders(r)) + (IF active = r THEN 1 ELSE 0)
                        = (IF region[r].mem = "live" THEN 1 ELSE 0)
    BY DEF EveryRegionHasOneHolder
  <2>1. Holders(r) = {t \in Threads : Holds(t, r)}
    BY DEF Holders, Holds
  <2>2. region[r].mem = "live" <=> (active = r \/ \E t \in Threads : Holds(t, r))
    BY DEF Inv, Safe, Owned
  <2>3. CASE \E t \in Threads : Holds(t, r)
    <3>1. PICK t \in Threads : Holds(t, r)
      BY <2>3
    <3>2. active # r /\ \A u \in Threads : Holds(u, r) => u = t
      BY <3>1 DEF Inv, Safe, Owned
    <3>3. Holders(r) = {t}
      BY <2>1, <3>1, <3>2
    <3>4. Cardinality(Holders(r)) = 1
      BY <3>3, FS_Singleton
    <3> QED BY <2>2, <2>3, <3>2, <3>4
  <2>4. CASE ~\E t \in Threads : Holds(t, r)
    <3>1. Holders(r) = {}
      BY <2>1, <2>4
    <3>2. Cardinality(Holders(r)) = 0
      BY <3>1, FS_EmptySet
    <3> QED BY <2>2, <2>4, <3>2
  <2> QED BY <2>3, <2>4
<1> QED BY <1>1, Invariant, PTL

\* Serialized requests leave the driver's globals consistent, for any number of clients.
THEOREM GlobalsAgree == Spec => []ConnectionIsConsistent
<1>1. Inv => ConnectionIsConsistent
  BY DEF Inv, Serial, Consistent, ConnectionIsConsistent
<1> QED BY <1>1, Invariant, PTL

\* Serialized requests leave no region connected that is not published, whether its sink
\* has attached or not, for any number of clients; a sink that attaches to a region that
\* was taken back before is left out.
THEOREM FlagsAreCleared == Spec => []ConnectedFlagIsCleared
<1>1. Inv => ConnectedFlagIsCleared
  BY DEF Inv, Flagged, ConnectedFlagIsCleared, Quiescent, InKernel
<1> QED BY <1>1, Invariant, PTL
=============================================================================
