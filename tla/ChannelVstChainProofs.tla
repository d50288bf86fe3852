----------------------- MODULE ChannelVstChainProofs -----------------------
(***************************************************************************)
(* ChannelVstChain is safe for any number of slots, loads and blocks: the  *)
(* rack, the live list and the published snapshot agree, and the callback  *)
(* never runs a destroyed processor nor reads a freed snapshot.            *)
(***************************************************************************)
EXTENDS ChannelVstChain, Vst3ChainProofs

----------------------------------------------------------------------------
(* How moveSlot's index arithmetic rebuilds an order.                      *)

\* Erasing and inserting again is what moveSlot's index arithmetic computes.
LEMMA MovedFacts ==
  ASSUME NEW S, NEW s \in Seq(S), NEW from \in 1..Len(s), NEW to \in 1..Len(s)
  PROVE  /\ MovedTo(s, from, to) \in Seq(S)
         /\ Len(MovedTo(s, from, to)) = Len(s)
         /\ \A k \in 1..Len(s) : /\ Source(k, from, to) \in 1..Len(s)
                                 /\ MovedTo(s, from, to)[k]
                                      = s[Source(k, from, to)]
<1> DEFINE t == RemoveAt(s, from)
           u == MovedTo(s, from, to)
<1>0. Len(s) \in Nat /\ s[from] \in S
  BY LenProperties, ElementOfSeq
<1>1. /\ t \in Seq(S) /\ Len(t) = Len(s) - 1
      /\ \A k \in 1..(Len(s) - 1) : t[k] = IF k < from THEN s[k] ELSE s[k + 1]
  BY RemoveAtFacts
<1> HIDE DEF t
<1>2. /\ u \in Seq(S) /\ Len(u) = Len(s)
      /\ \A k \in 1..Len(s) : u[k] = IF k < to THEN t[k]
                                     ELSE IF k = to THEN s[from] ELSE t[k - 1]
  <2> DEFINE e == s[from]
  <2>1. /\ t \in Seq(S) /\ to \in 1..(Len(t) + 1) /\ e \in S
        /\ Len(t) + 1 = Len(s) /\ 1..(Len(t) + 1) = 1..Len(s)
    BY <1>0, <1>1
  <2> HIDE DEF e
  <2>2. /\ InsertAt(t, to, e) \in Seq(S)
        /\ Len(InsertAt(t, to, e)) = Len(t) + 1
        /\ \A k \in 1..(Len(t) + 1) :
             InsertAt(t, to, e)[k] =
               IF k < to THEN t[k] ELSE IF k = to THEN e ELSE t[k - 1]
    BY <2>1, InsertAtFacts
  <2>3. u = InsertAt(t, to, e)
    BY DEF MovedTo, t, e
  <2> HIDE DEF u
  <2>4. /\ u \in Seq(S) /\ Len(u) = Len(t) + 1
        /\ \A k \in 1..(Len(t) + 1) :
             u[k] = IF k < to THEN t[k] ELSE IF k = to THEN e ELSE t[k - 1]
    BY <2>2, <2>3
  <2>5. /\ u \in Seq(S) /\ Len(u) = Len(s)
        /\ \A k \in 1..Len(s) :
             u[k] = IF k < to THEN t[k] ELSE IF k = to THEN e ELSE t[k - 1]
    BY <2>1, <2>4, Zenon
  <2> QED
    BY <2>5 DEF e
<1> HIDE DEF u
<1>3. ASSUME NEW k \in 1..Len(s)
      PROVE  /\ Source(k, from, to) \in 1..Len(s)
             /\ u[k] = s[Source(k, from, to)]
  <2>1. CASE k = to
    BY <1>0, <1>2, <2>1 DEF Source
  <2>2. CASE k < to /\ k < from
    <3>1. Source(k, from, to) = k
      BY <1>0, <2>2 DEF Source
    <3>2. k \in 1..(Len(s) - 1) /\ t[k] = s[k]
      BY <1>0, <1>1, <2>2
    <3>3. u[k] = t[k]
      BY <1>0, <1>2, <2>2
    <3> QED
      BY <3>1, <3>2, <3>3
  <2>3. CASE k < to /\ k >= from
    <3>1. Source(k, from, to) = k + 1
      BY <1>0, <2>3 DEF Source
    <3>2. t[k] = s[k + 1]
      BY <1>0, <1>1, <2>3
    <3> QED
      BY <1>0, <1>2, <2>3, <3>1, <3>2
  <2>4. CASE k > to /\ k <= from
    <3>1. Source(k, from, to) = k - 1
      BY <1>0, <2>4 DEF Source
    <3>2. t[k - 1] = s[k - 1]
      BY <1>0, <1>1, <2>4
    <3> QED
      BY <1>0, <1>2, <2>4, <3>1, <3>2
  <2>5. CASE k > to /\ k > from
    <3>1. Source(k, from, to) = k
      BY <1>0, <2>5 DEF Source
    <3>2. k - 1 \in 1..(Len(s) - 1) /\ ~ (k - 1 < from)
      BY <1>0, <2>5
    <3>3. t[k - 1] = s[(k - 1) + 1]
      BY <1>1, <3>2
    <3>4. (k - 1) + 1 = k
      BY <1>0
    <3>5. u[k] = t[k - 1]
      BY <1>0, <1>2, <2>5
    <3> QED
      BY <3>1, <3>3, <3>4, <3>5
  <2> QED
    BY <1>0, <2>1, <2>2, <2>3, <2>4, <2>5
<1> QED
  BY <1>2, <1>3 DEF u

----------------------------------------------------------------------------
(* What the rack and the snapshot have to be for a given list of bundles.  *)

TagsOf(l) == [i \in 1..Len(l) |-> Tag(l[i])]
SlotsOf(l) == [i \in 1..Len(l) |-> SlotOf(l[i])]
IdsOf(l) == {l[i].id : i \in 1..Len(l)}
Bypassed(l, index, bypass) == [l EXCEPT ![index].bypass = bypass]
Distinct(l) == \A i, j \in 1..Len(l) : l[i].id = l[j].id => i = j

\* Bundles have tags and slots, and lists of bundles have lists of them.
LEMMA OrderTypes ==
  ASSUME NEW l \in Seq(Bundles)
  PROVE  /\ Len(l) \in Nat /\ DOMAIN l = 1..Len(l)
         /\ \A i \in 1..Len(l) : l[i] \in Bundles /\ l[i].id \in Nat
         /\ TagsOf(l) \in Seq(Tags) /\ Len(TagsOf(l)) = Len(l)
         /\ \A i \in 1..Len(l) : TagsOf(l)[i] = Tag(l[i])
         /\ SlotsOf(l) \in Seq(Slots) /\ Len(SlotsOf(l)) = Len(l)
         /\ \A i \in 1..Len(l) : SlotsOf(l)[i] = SlotOf(l[i])
         /\ IdsOf(l) \subseteq Nat
         /\ Procs(SlotsOf(l)) = IdsOf(l)
<1>1. /\ Len(l) \in Nat /\ DOMAIN l = 1..Len(l)
      /\ \A i \in 1..Len(l) : l[i] \in Bundles /\ l[i].id \in Nat
  <2>1. \A i \in 1..Len(l) : l[i] \in Bundles
    BY ElementOfSeq
  <2> QED
    BY <2>1, LenProperties DEF Bundles
<1>2. \A b \in Bundles : Tag(b) \in Tags /\ SlotOf(b) \in Slots
  BY DEF Tag, Tags, SlotOf, Slots, Bundles
<1>3. TagsOf(l) \in Seq(Tags) /\ SlotsOf(l) \in Seq(Slots)
  BY <1>1, <1>2 DEF TagsOf, SlotsOf
<1>4. Len(TagsOf(l)) = Len(l) /\ Len(SlotsOf(l)) = Len(l)
  BY <1>1, <1>3, LenProperties DEF TagsOf, SlotsOf
<1>5. /\ \A i \in 1..Len(l) : TagsOf(l)[i] = Tag(l[i])
      /\ \A i \in 1..Len(l) : SlotsOf(l)[i] = SlotOf(l[i])
  BY DEF TagsOf, SlotsOf
<1>6. IdsOf(l) \subseteq Nat
  BY <1>1 DEF IdsOf
<1>7. Procs(SlotsOf(l)) = IdsOf(l)
  <2>1. DOMAIN SlotsOf(l) = 1..Len(l)
    BY DEF SlotsOf
  <2>2. \A i \in 1..Len(l) : SlotsOf(l)[i].proc = l[i].id
    <3>1. \A i \in 1..Len(l) : SlotOf(l[i]).proc = l[i].id
      BY DEF SlotOf
    <3> QED
      BY <1>5, <3>1
  <2> QED
    BY <2>1, <2>2 DEF Procs, IdsOf
<1> QED
  BY <1>1, <1>3, <1>4, <1>5, <1>6, <1>7

\* A list that has the right tags, slot by slot, is TagsOf, and likewise the
\* snapshot's.
LEMMA OrderEqual ==
  ASSUME NEW l \in Seq(Bundles), NEW S, NEW s \in Seq(S), Len(s) = Len(l)
  PROVE  /\ (\A i \in 1..Len(l) : s[i] = Tag(l[i])) => s = TagsOf(l)
         /\ (\A i \in 1..Len(l) : s[i] = SlotOf(l[i])) => s = SlotsOf(l)
<1>1. s = [i \in 1..Len(l) |-> s[i]]
  BY SeqDef, LenProperties
<1> QED
  BY <1>1 DEF TagsOf, SlotsOf

----------------------------------------------------------------------------
(* Each operation rebuilds the three orders in agreement.                  *)

\* A commit puts the bundle at its place, whether the rack appends its tag or
\* moves it there.
LEMMA CommitOrders ==
  ASSUME live \in Seq(Bundles), rack = TagsOf(live),
         NEW b \in Bundles, NEW target \in 1..(Len(live) + 1),
         NEW after, after = InsertAt(live, target, b)
  PROVE  /\ after \in Seq(Bundles)
         /\ OrderWith(b, target) = SlotsOf(after)
         /\ RackWith(Tag(b), target) = TagsOf(after)
<1> DEFINE n == Len(live)
<1>0. n \in Nat /\ target \in Nat /\ rack \in Seq(Tags) /\ Len(rack) = n
  BY OrderTypes
<1>1. /\ after \in Seq(Bundles) /\ Len(after) = n + 1
      /\ \A k \in 1..(n + 1) :
           after[k] = IF k < target THEN live[k]
                      ELSE IF k = target THEN b ELSE live[k - 1]
  <2> DEFINE longer == InsertAt(live, target, b)
  <2>1. /\ longer \in Seq(Bundles) /\ Len(longer) = n + 1
        /\ \A k \in 1..(n + 1) :
             longer[k] = IF k < target THEN live[k]
                         ELSE IF k = target THEN b ELSE live[k - 1]
    BY SMTT(30), InsertAtFacts
  <2>2. after = longer
    OBVIOUS
  <2> HIDE DEF longer
  <2> QED
    BY <2>1, <2>2
<1>2. OrderWith(b, target) = SlotsOf(after)
  <2>1. \A k \in 1..(n + 1) :
          after[k] = IF k = target THEN b
                     ELSE live[IF k > target THEN k - 1 ELSE k]
    BY <1>0, <1>1
  <2> QED
    BY <1>1, <2>1 DEF OrderWith, SlotsOf
<1>3. RackWith(Tag(b), target) = TagsOf(after)
  <2> DEFINE tag == Tag(b)
             longer == Append(rack, tag)
  <2>0. tag \in Tags
    BY DEF Tag, Tags, Bundles
  <2>1. /\ longer \in Seq(Tags) /\ Len(longer) = n + 1
        /\ \A k \in 1..n : longer[k] = Tag(live[k])
        /\ longer[n + 1] = tag
    BY <1>0, <2>0, AppendProperties, OrderTypes
  <2> HIDE DEF longer
  <2>2. CASE target <= n
    <3> DEFINE m == n + 1
               moved == MovedTo(longer, m, target)
    <3>1. m \in 1..Len(longer) /\ target \in 1..Len(longer)
      BY <1>0, <2>1
    <3>2. /\ moved \in Seq(Tags) /\ Len(moved) = n + 1
          /\ \A k \in 1..(n + 1) : moved[k] = longer[Source(k, n + 1, target)]
      <4>1. m = Len(longer) /\ m = n + 1
        BY <2>1
      <4> HIDE DEF m
      <4>2. /\ moved \in Seq(Tags) /\ Len(moved) = Len(longer)
            /\ \A k \in 1..Len(longer) : moved[k] = longer[Source(k, m, target)]
        BY <2>1, <3>1, MovedFacts
      <4> QED
        BY <4>1, <4>2
    <3>3. moved = RackWith(tag, target)
      BY <1>0, <2>2 DEF RackWith, longer
    <3> HIDE DEF moved, tag
    <3>4. ASSUME NEW k \in 1..(n + 1)
          PROVE  moved[k] = Tag(after[k])
      <4>1. CASE k < target
        <5>1. Source(k, n + 1, target) = k /\ k \in 1..n
          BY <1>0, <2>2, <4>1 DEF Source
        <5> QED
          BY <1>0, <1>1, <2>1, <3>2, <4>1, <5>1
      <4>2. CASE k = target
        <5>1. Source(k, n + 1, target) = n + 1
          BY <4>2 DEF Source
        <5>2. after[k] = b
          BY <1>0, <1>1, <4>2
        <5> QED
          BY <2>1, <3>2, <5>1, <5>2 DEF tag
      <4>3. CASE k > target
        <5> DEFINE j == k - 1
        <5>1. Source(k, n + 1, target) = j /\ j \in 1..n
          BY <1>0, <2>2, <4>3 DEF Source
        <5>2. after[k] = live[j]
          BY <1>0, <1>1, <4>3
        <5> HIDE DEF j
        <5> QED
          BY <2>1, <3>2, <5>1, <5>2
      <4> QED
        BY <1>0, <4>1, <4>2, <4>3
    <3> QED
      BY <1>1, <3>2, <3>3, <3>4, OrderEqual DEF tag
  <2>3. CASE target > n
    <3>1. target = n + 1
      BY <1>0, <2>3
    <3>2. longer = RackWith(tag, target)
      BY <1>0, <2>3 DEF RackWith, longer
    <3>3. ASSUME NEW k \in 1..(n + 1)
          PROVE  longer[k] = Tag(after[k])
      <4>1. CASE k <= n
        BY <1>0, <1>1, <2>1, <3>1, <4>1
      <4>2. CASE k = n + 1
        BY <1>0, <1>1, <2>1, <3>1, <4>2
      <4> QED
        BY <1>0, <4>1, <4>2
    <3> HIDE DEF tag
    <3> QED
      BY ZenonT(40), <1>1, <2>1, <3>2, <3>3, OrderEqual DEF tag
  <2> QED
    BY <1>0, <2>2, <2>3
<1> QED
  BY <1>1, <1>2, <1>3

\* A removal leaves the other slots in their order.
LEMMA RemoveOrders ==
  ASSUME live \in Seq(Bundles), rack = TagsOf(live), NEW index \in 1..Len(live),
         NEW after, after = RemoveAt(live, index)
  PROVE  /\ after \in Seq(Bundles)
         /\ OrderWithout(index) = SlotsOf(after)
         /\ RemoveAt(rack, index) = TagsOf(after)
<1> DEFINE n == Len(live)
           shorter == RemoveAt(rack, index)
<1>0. n \in Nat /\ rack \in Seq(Tags) /\ Len(rack) = n
  BY OrderTypes
<1>1. /\ after \in Seq(Bundles) /\ Len(after) = n - 1
      /\ \A k \in 1..(n - 1) : after[k] = IF k < index THEN live[k]
                                           ELSE live[k + 1]
  BY RemoveAtFacts
<1>2. OrderWithout(index) = SlotsOf(after)
  <2>1. \A k \in 1..(n - 1) : after[k] = live[IF k < index THEN k ELSE k + 1]
    BY <1>1
  <2> QED
    BY <1>1, <2>1 DEF OrderWithout, SlotsOf
<1>3. /\ shorter \in Seq(Tags) /\ Len(shorter) = n - 1
      /\ \A k \in 1..(n - 1) : shorter[k] = IF k < index THEN rack[k]
                                             ELSE rack[k + 1]
  <2>1. index \in 1..Len(rack)
    BY <1>0
  <2> QED
    BY <1>0, <2>1, RemoveAtFacts
<1> HIDE DEF shorter
<1>4. ASSUME NEW k \in 1..(n - 1)
      PROVE  shorter[k] = Tag(after[k])
  <2> DEFINE j == k + 1
  <2>1. k \in 1..n /\ j \in 1..n
    BY <1>0
  <2>2. rack[k] = Tag(live[k]) /\ rack[j] = Tag(live[j])
    BY <2>1, OrderTypes
  <2>3. /\ shorter[k] = IF k < index THEN rack[k] ELSE rack[j]
        /\ after[k] = IF k < index THEN live[k] ELSE live[j]
    BY <1>1, <1>3
  <2> HIDE DEF j
  <2> QED
    BY <2>2, <2>3
<1> QED
  BY SMTT(30), <1>1, <1>2, <1>3, <1>4, OrderEqual DEF shorter

\* A move takes each slot from where moveSlot says it comes from.
LEMMA MoveOrders ==
  ASSUME live \in Seq(Bundles), rack = TagsOf(live),
         NEW from \in 1..Len(live), NEW to \in 1..Len(live),
         NEW after, after = MovedTo(live, from, to)
  PROVE  /\ after \in Seq(Bundles)
         /\ OrderMoved(from, to) = SlotsOf(after)
         /\ MovedTo(rack, from, to) = TagsOf(after)
<1> DEFINE n == Len(live)
           moved == MovedTo(rack, from, to)
<1>0. /\ n \in Nat /\ rack \in Seq(Tags) /\ Len(rack) = n
      /\ \A k \in 1..n : rack[k] = Tag(live[k])
  BY OrderTypes
<1>1. /\ after \in Seq(Bundles) /\ Len(after) = n
      /\ \A k \in 1..n : /\ Source(k, from, to) \in 1..n
                          /\ after[k] = live[Source(k, from, to)]
  BY MovedFacts
<1>2. OrderMoved(from, to) = SlotsOf(after)
  BY <1>1 DEF OrderMoved, SlotsOf
<1>3. /\ moved \in Seq(Tags) /\ Len(moved) = n
      /\ \A k \in 1..n : moved[k] = rack[Source(k, from, to)]
  <2>1. from \in 1..Len(rack) /\ to \in 1..Len(rack)
    BY <1>0
  <2> QED
    BY <1>0, <2>1, MovedFacts
<1> HIDE DEF moved
<1>4. ASSUME NEW k \in 1..n
      PROVE  moved[k] = Tag(after[k])
  <2> DEFINE j == Source(k, from, to)
  <2>1. j \in 1..n /\ after[k] = live[j] /\ moved[k] = rack[j]
    BY <1>1, <1>3
  <2> HIDE DEF j
  <2> QED
    BY <1>0, <2>1
<1>5. moved = TagsOf(after)
  <2>1. /\ after \in Seq(Bundles) /\ moved \in Seq(Tags)
        /\ Len(moved) = Len(after)
        /\ \A k \in 1..Len(after) : moved[k] = Tag(after[k])
    BY <1>1, <1>3, <1>4
  <2> QED
    BY <2>1, OrderEqual
<1> QED
  BY <1>1, <1>2, <1>5 DEF moved

\* Setting the bypass flag of one bundle.
LEMMA BypassFacts ==
  ASSUME NEW b \in Bundles, NEW bypass \in BOOLEAN
  PROVE  /\ b = [id |-> b.id, bypass |-> b.bypass, hosted |-> b.hosted]
         /\ [b EXCEPT !.bypass = bypass]
              = [id |-> b.id, bypass |-> bypass, hosted |-> b.hosted]
         /\ [Tag(b) EXCEPT !.bypass = bypass] = [id |-> b.id, bypass |-> bypass]
  BY DEF Bundles, Tag

\* A bypass flag is set in the list, in the rack and in the snapshot.
LEMMA BypassOrders ==
  ASSUME live \in Seq(Bundles), rack = TagsOf(live),
         NEW index \in 1..Len(live), NEW bypass \in BOOLEAN,
         NEW after, after = Bypassed(live, index, bypass)
  PROVE  /\ after \in Seq(Bundles)
         /\ OrderBypassing(index, bypass) = SlotsOf(after)
         /\ Bypassed(rack, index, bypass) = TagsOf(after)
         /\ Len(after) = Len(live)
         /\ \A k \in 1..Len(live) : after[k].id = live[k].id
<1> DEFINE n == Len(live)
           with(k) == [id |-> live[k].id,
                       bypass |-> IF k = index THEN bypass ELSE live[k].bypass,
                       hosted |-> live[k].hosted]
<1>0. n \in Nat /\ \A k \in 1..n : live[k] \in Bundles
  BY OrderTypes
<1>1. after = [k \in 1..n |-> with(k)]
  <2>1. live = [k \in 1..n |-> live[k]]
    BY LenProperties
  <2>2. DOMAIN live = 1..n
    BY OrderTypes
  <2>3. after = [k \in 1..n |-> after[k]]
    BY <2>2 DEF Bypassed
  <2>4. ASSUME NEW k \in 1..n
        PROVE  after[k] = with(k)
    <3>1. live[k] \in Bundles
      BY <1>0
    <3>2. CASE k = index
      <4>1. after[k] = [live[k] EXCEPT !.bypass = bypass]
        BY <2>2, <3>2 DEF Bypassed
      <4> QED
        BY <3>1, <3>2, <4>1, BypassFacts
    <3>3. CASE k # index
      <4>1. after[k] = live[k]
        BY <2>2, <3>3 DEF Bypassed
      <4> QED
        BY <3>1, <3>3, <4>1, BypassFacts
    <3> QED
      BY <3>2, <3>3
  <2> QED
    BY <2>3, <2>4
<1>2. \A k \in 1..n : with(k) \in Bundles
  BY <1>0 DEF Bundles
<1>3. after \in Seq(Bundles) /\ Len(after) = n
  <2> HIDE DEF with
  <2>1. [k \in 1..n |-> with(k)] \in Seq(Bundles)
    BY <1>0, <1>2
  <2> QED
    BY <1>0, <1>1, <2>1, LenProperties
<1>4. \A k \in 1..n :
        /\ after[k].id = live[k].id
        /\ after[k].bypass = IF k = index THEN bypass ELSE live[k].bypass
  <2>1. \A k \in 1..n :
          /\ with(k).id = live[k].id
          /\ with(k).bypass = IF k = index THEN bypass ELSE live[k].bypass
    OBVIOUS
  <2> HIDE DEF with
  <2>2. \A k \in 1..n : after[k] = with(k)
    BY <1>1
  <2> QED
    BY <2>1, <2>2
<1> HIDE DEF with
<1>5. OrderBypassing(index, bypass) = SlotsOf(after)
  BY <1>3, <1>4 DEF OrderBypassing, SlotsOf, SlotOf
<1>6. Bypassed(rack, index, bypass) = TagsOf(after)
  <2> DEFINE flagged == [rack EXCEPT ![index].bypass = bypass]
  <2>1. /\ DOMAIN rack = 1..n
        /\ \A k \in 1..n : rack[k] = Tag(live[k])
    BY OrderTypes DEF TagsOf
  <2>2. flagged = [k \in 1..n |-> flagged[k]]
    BY <2>1
  <2>3. ASSUME NEW k \in 1..n
        PROVE  flagged[k] = Tag(after[k])
    <3>1. live[k] \in Bundles
      BY <1>0
    <3>2. CASE k = index
      <4>1. flagged[k] = [Tag(live[k]) EXCEPT !.bypass = bypass]
        BY <2>1, <3>2
      <4> QED
        BY <1>4, <3>1, <3>2, <4>1, BypassFacts DEF Tag
    <3>3. CASE k # index
      <4>1. flagged[k] = Tag(live[k])
        BY <2>1, <3>3
      <4> QED
        BY <1>4, <3>3, <4>1 DEF Tag
    <3> QED
      BY <3>2, <3>3
  <2> QED
    BY <1>3, <2>2, <2>3 DEF TagsOf, Bypassed
<1> QED
  BY <1>3, <1>4, <1>5, <1>6

----------------------------------------------------------------------------
(* What each operation does to the set of live bundles.                    *)

\* A commit adds one bundle, with an id of its own.
LEMMA CommitIds ==
  ASSUME live \in Seq(Bundles), Distinct(live),
         NEW b \in Bundles, b.id \notin IdsOf(live),
         NEW target \in 1..(Len(live) + 1),
         NEW after, after = InsertAt(live, target, b)
  PROVE  /\ IdsOf(after) = IdsOf(live) \union {b.id}
         /\ Distinct(after)
<1> DEFINE n == Len(live)
<1>0. n \in Nat
  BY OrderTypes
<1>1. /\ Len(after) = n + 1
      /\ \A k \in 1..(n + 1) :
           after[k] = IF k < target THEN live[k]
                      ELSE IF k = target THEN b ELSE live[k - 1]
  <2> DEFINE longer == InsertAt(live, target, b)
  <2>1. /\ Len(longer) = n + 1
        /\ \A k \in 1..(n + 1) :
             longer[k] = IF k < target THEN live[k]
                         ELSE IF k = target THEN b ELSE live[k - 1]
    BY InsertAtFacts
  <2>2. after = longer
    OBVIOUS
  <2> HIDE DEF longer
  <2> QED
    BY <2>1, <2>2
<1>2. \A k \in 1..(n + 1) : k # target =>
        \E j \in 1..n : /\ after[k] = live[j]
                        /\ j = IF k < target THEN k ELSE k - 1
  <2> TAKE k \in 1..(n + 1)
  <2> HAVE k # target
  <2>1. CASE k < target
    <3>1. k \in 1..n /\ after[k] = live[k]
      BY <1>0, <1>1, <2>1
    <3> QED
      BY <2>1, <3>1
  <2>2. CASE ~ (k < target)
    <3> DEFINE j == k - 1
    <3>1. j \in 1..n /\ after[k] = live[j]
      BY <1>0, <1>1, <2>2
    <3>2. j = IF k < target THEN k ELSE k - 1
      BY <2>2
    <3> HIDE DEF j
    <3> QED
      BY <3>1, <3>2
  <2> QED
    BY <2>1, <2>2
<1>3. after[target] = b
  BY <1>0, <1>1
<1>4. Distinct(after)
  <2> SUFFICES ASSUME NEW p \in 1..(n + 1), NEW q \in 1..(n + 1),
                      after[p].id = after[q].id
               PROVE  p = q
    BY <1>1 DEF Distinct
  <2>1. CASE p # target /\ q # target
    <3>1. PICK j \in 1..n : /\ after[p] = live[j]
                            /\ j = IF p < target THEN p ELSE p - 1
      BY <1>2, <2>1
    <3>2. PICK k \in 1..n : /\ after[q] = live[k]
                            /\ k = IF q < target THEN q ELSE q - 1
      BY <1>2, <2>1
    <3>3. j = k
      BY <3>1, <3>2 DEF Distinct
    <3> QED
      BY <1>0, <2>1, <3>1, <3>2, <3>3
  <2>2. ASSUME NEW k \in 1..(n + 1), k # target
        PROVE  after[k].id # b.id
    BY <1>2, <2>2 DEF IdsOf
  <2> QED
    BY <1>3, <2>1, <2>2
<1>5. IdsOf(after) \subseteq IdsOf(live) \union {b.id}
  <2> SUFFICES ASSUME NEW k \in 1..(n + 1)
               PROVE  after[k].id \in IdsOf(live) \union {b.id}
    BY <1>1 DEF IdsOf
  <2> QED
    BY <1>2, <1>3 DEF IdsOf
<1>6. IdsOf(live) \union {b.id} \subseteq IdsOf(after)
  <2>1. target \in 1..(n + 1)
    OBVIOUS
  <2>2. b.id \in IdsOf(after)
    BY <1>1, <1>3, <2>1 DEF IdsOf
  <2>3. ASSUME NEW j \in 1..n
        PROVE  live[j].id \in IdsOf(after)
    <3>1. CASE j < target
      <4>1. j \in 1..(n + 1) /\ after[j] = live[j]
        BY <1>0, <1>1, <3>1
      <4> QED
        BY <1>1, <4>1 DEF IdsOf
    <3>2. CASE ~ (j < target)
      <4> DEFINE k == j + 1
      <4>1. k \in 1..(n + 1) /\ k # target /\ ~ (k < target) /\ k - 1 = j
        BY <1>0, <3>2
      <4> HIDE DEF k
      <4>2. after[k] = live[j]
        BY <1>2, <4>1
      <4> QED
        BY <1>1, <4>1, <4>2 DEF IdsOf
    <3> QED
      BY <3>1, <3>2
  <2> QED
    BY <2>2, <2>3 DEF IdsOf
<1> QED
  BY <1>4, <1>5, <1>6

\* A removal drops one bundle; nothing else of the list has its id.
LEMMA RemoveIds ==
  ASSUME live \in Seq(Bundles), Distinct(live), NEW index \in 1..Len(live),
         NEW after, after = RemoveAt(live, index)
  PROVE  /\ IdsOf(after) = IdsOf(live) \ {live[index].id}
         /\ live[index].id \in IdsOf(live)
         /\ Distinct(after)
<1> DEFINE n == Len(live)
<1>0. n \in Nat
  BY OrderTypes
<1>1. /\ Len(after) = n - 1
      /\ \A k \in 1..(n - 1) : after[k] = IF k < index THEN live[k]
                                           ELSE live[k + 1]
  BY RemoveAtFacts
<1>2. \A k \in 1..(n - 1) :
        \E j \in 1..n : /\ after[k] = live[j]
                        /\ j = IF k < index THEN k ELSE k + 1
  <2> TAKE k \in 1..(n - 1)
  <2> DEFINE j == k + 1
  <2>1. k \in 1..n /\ j \in 1..n
    BY <1>0
  <2>2. after[k] = IF k < index THEN live[k] ELSE live[j]
    BY <1>1
  <2>3. k < index \/ j = IF k < index THEN k ELSE k + 1
    OBVIOUS
  <2> HIDE DEF j
  <2> QED
    BY <2>1, <2>2, <2>3
<1>3. Distinct(after)
  <2> SUFFICES ASSUME NEW p \in 1..(n - 1), NEW q \in 1..(n - 1),
                      after[p].id = after[q].id
               PROVE  p = q
    BY <1>1 DEF Distinct
  <2>1. PICK j \in 1..n : after[p] = live[j] /\ j = IF p < index THEN p ELSE p + 1
    BY <1>2
  <2>2. PICK k \in 1..n : after[q] = live[k] /\ k = IF q < index THEN q ELSE q + 1
    BY <1>2
  <2>3. j = k
    BY <2>1, <2>2 DEF Distinct
  <2> QED
    BY <1>0, <2>1, <2>2, <2>3
<1>4. IdsOf(after) \subseteq IdsOf(live) \ {live[index].id}
  <2> SUFFICES ASSUME NEW k \in 1..(n - 1)
               PROVE  after[k].id \in IdsOf(live) \ {live[index].id}
    BY <1>1 DEF IdsOf
  <2>1. PICK j \in 1..n : after[k] = live[j] /\ j = IF k < index THEN k ELSE k + 1
    BY <1>2
  <2>2. j # index
    BY <1>0, <2>1
  <2>3. live[j].id # live[index].id
    BY <2>2 DEF Distinct
  <2> QED
    BY <2>1, <2>3 DEF IdsOf
<1>5. IdsOf(live) \ {live[index].id} \subseteq IdsOf(after)
  <2> SUFFICES ASSUME NEW j \in 1..n, j # index
               PROVE  live[j].id \in IdsOf(after)
    BY DEF IdsOf
  <2>1. CASE j < index
    <3>1. j \in 1..(n - 1) /\ after[j] = live[j]
      BY <1>0, <1>1, <2>1
    <3> QED
      BY <1>1, <3>1 DEF IdsOf
  <2>2. CASE ~ (j < index)
    <3> DEFINE k == j - 1
    <3>1. k \in 1..(n - 1) /\ ~ (k < index) /\ k + 1 = j
      BY <1>0, <2>2
    <3> HIDE DEF k
    <3>2. after[k] = live[j]
      BY <1>2, <3>1
    <3> QED
      BY <1>1, <3>1, <3>2 DEF IdsOf
  <2> QED
    BY <2>1, <2>2
<1> QED
  BY <1>3, <1>4, <1>5 DEF IdsOf

\* A move takes every slot once: the source of a place can be inverted.
LEMMA MoveIds ==
  ASSUME live \in Seq(Bundles), Distinct(live),
         NEW from \in 1..Len(live), NEW to \in 1..Len(live),
         NEW after, after = MovedTo(live, from, to)
  PROVE  IdsOf(after) = IdsOf(live) /\ Distinct(after)
<1> DEFINE n == Len(live)
           source(k) == Source(k, from, to)
<1>0. n \in Nat
  BY OrderTypes
<1>1. /\ Len(after) = n
      /\ \A k \in 1..n : source(k) \in 1..n /\ after[k] = live[source(k)]
  <2> DEFINE moved == MovedTo(live, from, to)
  <2>1. /\ Len(moved) = n
        /\ \A k \in 1..n : source(k) \in 1..n /\ moved[k] = live[source(k)]
    BY MovedFacts
  <2>2. after = moved
    OBVIOUS
  <2> HIDE DEF moved, source
  <2> QED
    BY <2>1, <2>2
<1>2. ASSUME NEW p \in 1..n, NEW q \in 1..n, source(p) = source(q)
      PROVE  p = q
  BY <1>0, <1>2 DEF Source
<1>3. \A j \in 1..n : /\ Source(j, to, from) \in 1..n
                      /\ source(Source(j, to, from)) = j
  BY <1>0 DEF Source
<1> HIDE DEF source
<1>4. Distinct(after)
  <2> SUFFICES ASSUME NEW p \in 1..n, NEW q \in 1..n, after[p].id = after[q].id
               PROVE  p = q
    BY <1>1 DEF Distinct
  <2> DEFINE j == source(p)
             k == source(q)
  <2>1. /\ j \in 1..n /\ after[p] = live[j]
        /\ k \in 1..n /\ after[q] = live[k]
    BY <1>1
  <2> HIDE DEF j, k
  <2>2. j = k
    BY <2>1 DEF Distinct
  <2> QED
    BY <1>2, <2>2 DEF j, k
<1>5. IdsOf(after) = IdsOf(live)
  <2>1. \A k \in 1..n : after[k].id \in IdsOf(live)
    BY <1>1 DEF IdsOf
  <2>2. ASSUME NEW j \in 1..n
        PROVE  live[j].id \in IdsOf(after)
    <3>1. PICK k \in 1..n : source(k) = j
      BY <1>3
    <3> QED
      BY <1>1, <3>1 DEF IdsOf
  <2> QED
    BY ZenonT(40), <1>1, <2>1, <2>2 DEF IdsOf
<1> QED
  BY <1>4, <1>5

----------------------------------------------------------------------------
(* The inductive invariant.                                                *)

\* The invariant in terms of the orders.
LEMMA InvFacts ==
  ASSUME IInv
  PROVE  /\ live \in Seq(Bundles) /\ rack \in Seq(Tags)
         /\ LiveIds = IdsOf(live) /\ Owned = IdsOf(live) \union retiring
         /\ Distinct(live) /\ IdsOf(live) \cap retiring = {}
         /\ ChainInv /\ ChainTypeOK
         /\ ~ shutdown => /\ rack = TagsOf(live)
                         /\ state.slots = SlotsOf(live)
                         /\ state.whole = whole /\ rackWhole = whole
<1>1. live \in Seq(Bundles) /\ rack \in Seq(Tags) /\ ChainInv /\ ChainTypeOK
  BY DEF IInv, TypeOK
<1>2. DOMAIN live = 1..Len(live)
  BY <1>1, OrderTypes
<1>3. LiveIds = IdsOf(live)
  BY <1>2 DEF LiveIds, IdsOf
<1>4. Distinct(live) /\ IdsOf(live) \cap retiring = {}
  BY <1>2, <1>3 DEF IInv, SlotIdsAreDistinct, Distinct
<1>5. ~ shutdown => /\ rack = TagsOf(live)
                   /\ state.slots = SlotsOf(live)
                   /\ state.whole = whole /\ rackWhole = whole
  BY DEF IInv, RackMatchesPublished, TagsOf, SlotsOf
<1> QED
  BY <1>1, <1>3, <1>4, <1>5 DEF Owned

\* An operation that publishes the list it leaves, in agreement with its rack,
\* keeps the invariant if it owns all it owned before.
LEMMA RebuildInv ==
  ASSUME IInv, Idle,
         NEW after \in Seq(Bundles), NEW on \in BOOLEAN,
         Publish(SlotsOf(after), on),
         live' = after, rack' = TagsOf(after), rackWhole' = on, whole' = on,
         retiring' \in SUBSET Nat, nextSlotId' \in Nat \ {0},
         UNCHANGED <<shutdown, servicing>>,
         Owned \subseteq IdsOf(after) \union retiring',
         \A id \in IdsOf(after) \union retiring' : id < nextSlotId',
         Distinct(after), IdsOf(after) \cap retiring' = {},
         editors' \subseteq IdsOf(after)
  PROVE  IInv'
<1>0. /\ ~ shutdown /\ ~ servicing /\ pending = NoSnapshot
      /\ state.slots = SlotsOf(live) /\ live \in Seq(Bundles)
      /\ Owned = IdsOf(live) \union retiring
  BY InvFacts DEF Idle
<1>1. /\ state' = [id |-> state.id + 1, slots |-> SlotsOf(after), whole |-> on]
      /\ pending' = state
      /\ UNCHANGED <<blocks, retired, quiescent>>
  BY DEF Publish
<1>2. /\ SlotsOf(after) \in Seq(Slots) /\ TagsOf(after) \in Seq(Tags)
      /\ IdsOf(after) \subseteq Nat /\ DOMAIN after = 1..Len(after)
  BY OrderTypes
<1>3. ChainInv'
  BY <1>0, <1>2, InvFacts, PublishInv
<1>4. TypeOK'
  BY <1>0, <1>2, <1>3 DEF TypeOK, ChainInv, IInv
<1>5. LiveIds' = IdsOf(after)
  BY <1>2 DEF LiveIds, IdsOf
<1>6. Owned' = IdsOf(after) \union retiring'
  BY <1>5 DEF Owned
<1>7. OldSnapshotsInv'
  <2>1. Procs(state.slots) \subseteq Owned
    BY <1>0, OrderTypes
  <2>2. Procs(pending.slots)' = Procs(state.slots)
    BY <1>1 DEF Procs
  <2>3. \A r \in retired : GraceElapsed(r)' = GraceElapsed(r)
    BY <1>1 DEF GraceElapsed
  <2>4. \A r \in retired : GraceElapsed(r) \/ Procs(r.snap.slots) \subseteq Owned
    BY DEF IInv, OldSnapshotsInv
  <2>5. Owned \subseteq Owned'
    BY <1>6
  <2> QED
    BY <1>1, <2>1, <2>2, <2>3, <2>4, <2>5 DEF OldSnapshotsInv, GraceElapsed, Procs
<1>8. RackMatchesPublished'
  BY <1>1 DEF RackMatchesPublished, TagsOf, SlotsOf
<1>9. SlotIdsAreDistinct' /\ EditorsAreLive'
  BY <1>2, <1>5 DEF SlotIdsAreDistinct, EditorsAreLive, Distinct
<1>10. (shutdown = quiescent)' /\ (servicing => pending = NoSnapshot)'
  BY <1>0, <1>1 DEF IInv
<1> QED
  BY <1>3, <1>4, <1>6, <1>7, <1>8, <1>9, <1>10 DEF IInv

\* A step that leaves the slots alone keeps the invariant if it keeps the old
\* snapshots' processors.
LEMMA KeepInv ==
  ASSUME IInv, ChainInv', OldSnapshotsInv',
         UNCHANGED <<state, quiescent, rack, rackWhole, live, retiring, whole,
                     nextSlotId, shutdown>>,
         editors' \subseteq LiveIds,
         servicing' \in BOOLEAN, servicing' => pending' = NoSnapshot
  PROVE  IInv'
<1>1. LiveIds' = LiveIds /\ Owned' = Owned
  BY DEF LiveIds, Owned
<1>2. LiveIds \subseteq Nat
  BY InvFacts, OrderTypes
<1>3. TypeOK'
  BY <1>2 DEF TypeOK, ChainInv, IInv
<1>4. RackMatchesPublished'
  BY DEF IInv, RackMatchesPublished, Tag, SlotOf
<1>5. SlotIdsAreDistinct' /\ EditorsAreLive'
  BY <1>1 DEF IInv, SlotIdsAreDistinct, EditorsAreLive
<1>6. \A id \in Owned' : id < nextSlotId'
  BY <1>1 DEF IInv
<1> QED
  BY <1>3, <1>4, <1>5, <1>6 DEF IInv

----------------------------------------------------------------------------
(* Each action preserves it.                                               *)

\* A new bundle has an id that no bundle had before it.
LEMMA CommitInv ==
  ASSUME IInv, NEW hosted \in BOOLEAN, NEW index \in 0..Len(live),
         Commit(hosted, index)
  PROVE  IInv'
<1> DEFINE b == [id |-> NewSlotId, bypass |-> FALSE, hosted |-> hosted]
           target == (IF index < Len(live) THEN index ELSE Len(live)) + 1
           after == InsertAt(live, target, b)
<1>0. /\ live \in Seq(Bundles) /\ rack = TagsOf(live) /\ Distinct(live)
      /\ Owned = IdsOf(live) \union retiring /\ LiveIds = IdsOf(live)
      /\ IdsOf(live) \cap retiring = {} /\ Len(live) \in Nat
      /\ rackWhole = whole /\ Idle
  BY InvFacts, OrderTypes DEF Commit, MaySwap, Idle
<1>1. nextSlotId \in Nat \ {0} /\ \A id \in Owned : id < nextSlotId
  BY DEF IInv, TypeOK
<1>2. b \in Bundles /\ b.id = nextSlotId /\ b.id \notin Owned
  BY <1>0, <1>1 DEF Bundles, NewSlotId
<1>3. target \in 1..(Len(live) + 1)
  BY <1>0
<1>4. /\ Publish(OrderWith(b, target), whole)
      /\ rack' = RackWith(Tag(b), target)
      /\ live' = after
      /\ nextSlotId' = nextSlotId + 1
      /\ UNCHANGED <<rackWhole, retiring, editors, whole, shutdown, servicing>>
  BY DEF Commit
<1>5. /\ after \in Seq(Bundles) /\ OrderWith(b, target) = SlotsOf(after)
      /\ RackWith(Tag(b), target) = TagsOf(after)
  <2> HIDE DEF b, target
  <2> QED
    BY <1>0, <1>2, <1>3, CommitOrders
<1>6. IdsOf(after) = IdsOf(live) \union {nextSlotId} /\ Distinct(after)
  <2> HIDE DEF b, target
  <2> QED
    BY <1>0, <1>2, <1>3, CommitIds
<1> HIDE DEF b, target, after
<1>7. /\ Owned \subseteq IdsOf(after) \union retiring'
      /\ IdsOf(after) \cap retiring' = {}
  BY <1>0, <1>1, <1>2, <1>4, <1>6
<1>8. /\ nextSlotId' \in Nat \ {0}
      /\ \A id \in IdsOf(after) \union retiring' : id < nextSlotId'
  <2>1. \A id \in Owned : id \in Nat
    BY <1>0, OrderTypes DEF IInv, TypeOK
  <2> QED
    BY <1>0, <1>1, <1>4, <1>6, <2>1
<1>9. /\ editors' \subseteq IdsOf(after)
      /\ whole \in BOOLEAN /\ retiring' \in SUBSET Nat
  BY <1>0, <1>4, <1>6 DEF IInv, TypeOK, EditorsAreLive
<1> QED
  BY <1>0, <1>4, <1>5, <1>6, <1>7, <1>8, <1>9, RebuildInv

\* A removed bundle loses its editor and is owned on.
LEMMA RemoveInv ==
  ASSUME IInv, NEW index \in DOMAIN live, RemoveSlot(index)
  PROVE  IInv'
<1> DEFINE after == RemoveAt(live, index)
<1>0. /\ live \in Seq(Bundles) /\ rack = TagsOf(live) /\ Distinct(live)
      /\ Owned = IdsOf(live) \union retiring /\ LiveIds = IdsOf(live)
      /\ IdsOf(live) \cap retiring = {} /\ index \in 1..Len(live)
      /\ rackWhole = whole /\ Idle
  BY InvFacts, OrderTypes DEF RemoveSlot, MaySwap, Idle
<1>1. /\ Publish(OrderWithout(index), whole)
      /\ editors' = editors \ {live[index].id}
      /\ rack' = RemoveAt(rack, index)
      /\ retiring' = retiring \union {live[index].id}
      /\ live' = after
      /\ UNCHANGED <<rackWhole, whole, nextSlotId, shutdown, servicing>>
  BY DEF RemoveSlot, EditorsWithout
<1>2. /\ after \in Seq(Bundles) /\ OrderWithout(index) = SlotsOf(after)
      /\ RemoveAt(rack, index) = TagsOf(after)
  BY <1>0, RemoveOrders
<1>3. /\ IdsOf(after) = IdsOf(live) \ {live[index].id}
      /\ live[index].id \in IdsOf(live) /\ Distinct(after)
  BY <1>0, RemoveIds
<1> HIDE DEF after
<1>4. IdsOf(after) \union retiring' = Owned /\ IdsOf(after) \cap retiring' = {}
  BY <1>0, <1>1, <1>3
<1>5. /\ nextSlotId' \in Nat \ {0} /\ \A id \in Owned : id < nextSlotId'
      /\ whole \in BOOLEAN /\ retiring' \in SUBSET Nat
  BY <1>0, <1>1, <1>3, OrderTypes DEF IInv, TypeOK
<1>6. editors' \subseteq IdsOf(after)
  BY <1>0, <1>1, <1>3 DEF IInv, EditorsAreLive
<1> QED
  BY <1>0, <1>1, <1>2, <1>3, <1>4, <1>5, <1>6, RebuildInv

\* A move and a change of a bypass flag keep the bundles.
LEMMA SameBundlesInv ==
  ASSUME IInv, MaySwap,
         NEW after \in Seq(Bundles), NEW on \in BOOLEAN,
         IdsOf(after) = IdsOf(live), Distinct(after),
         Publish(SlotsOf(after), on),
         live' = after, rack' = TagsOf(after), rackWhole' = on, whole' = on,
         UNCHANGED <<retiring, editors, nextSlotId, shutdown, servicing>>
  PROVE  IInv'
<1>1. /\ Owned = IdsOf(live) \union retiring /\ LiveIds = IdsOf(live)
      /\ IdsOf(live) \cap retiring = {} /\ Idle
  BY InvFacts DEF MaySwap
<1>2. /\ nextSlotId' \in Nat \ {0} /\ retiring' \in SUBSET Nat
      /\ \A id \in Owned : id < nextSlotId'
      /\ editors' \subseteq LiveIds
  BY DEF IInv, TypeOK, EditorsAreLive
<1> QED
  BY <1>1, <1>2, RebuildInv

\* A move changes the order only, of all three lists.
LEMMA MoveInv ==
  ASSUME IInv, NEW from \in DOMAIN live, NEW to \in DOMAIN live,
         MoveSlot(from, to)
  PROVE  IInv'
<1> DEFINE after == MovedTo(live, from, to)
<1>0. /\ live \in Seq(Bundles) /\ rack = TagsOf(live) /\ Distinct(live)
      /\ from \in 1..Len(live) /\ to \in 1..Len(live)
      /\ rackWhole = whole /\ whole \in BOOLEAN /\ MaySwap
  BY InvFacts, OrderTypes DEF MoveSlot, MaySwap, Idle, IInv, TypeOK
<1>1. /\ Publish(OrderMoved(from, to), whole)
      /\ live' = after
      /\ rack' = MovedTo(rack, from, to)
      /\ UNCHANGED <<rackWhole, retiring, editors, whole, nextSlotId, shutdown,
                     servicing>>
  BY DEF MoveSlot
<1>2. /\ after \in Seq(Bundles) /\ OrderMoved(from, to) = SlotsOf(after)
      /\ MovedTo(rack, from, to) = TagsOf(after)
  BY <1>0, MoveOrders
<1>3. IdsOf(after) = IdsOf(live) /\ Distinct(after)
  BY <1>0, MoveIds
<1> HIDE DEF after
<1> QED
  BY <1>0, <1>1, <1>2, <1>3, SameBundlesInv

\* A change of a slot's bypass flag changes no id.
LEMMA SlotBypassInv ==
  ASSUME IInv, NEW index \in DOMAIN live, NEW bypass \in BOOLEAN,
         SetSlotBypass(index, bypass)
  PROVE  IInv'
<1> DEFINE after == Bypassed(live, index, bypass)
<1>0. /\ live \in Seq(Bundles) /\ rack = TagsOf(live) /\ Distinct(live)
      /\ index \in 1..Len(live)
      /\ rackWhole = whole /\ whole \in BOOLEAN /\ MaySwap
  BY InvFacts, OrderTypes DEF SetSlotBypass, MaySwap, Idle, IInv, TypeOK
<1>1. /\ Publish(OrderBypassing(index, bypass), whole)
      /\ live' = after
      /\ rack' = Bypassed(rack, index, bypass)
      /\ UNCHANGED <<rackWhole, retiring, editors, whole, nextSlotId, shutdown,
                     servicing>>
  BY DEF SetSlotBypass, Bypassed
<1>2. /\ after \in Seq(Bundles)
      /\ OrderBypassing(index, bypass) = SlotsOf(after)
      /\ Bypassed(rack, index, bypass) = TagsOf(after)
      /\ Len(after) = Len(live)
      /\ \A k \in 1..Len(live) : after[k].id = live[k].id
  BY <1>0, BypassOrders
<1> HIDE DEF after
<1>3. IdsOf(after) = IdsOf(live)
  <2>1. IdsOf(after) = {after[k].id : k \in 1..Len(live)}
    BY <1>2 DEF IdsOf
  <2> QED
    BY <1>2, <2>1 DEF IdsOf
<1>4. Distinct(after)
  BY <1>0, <1>2 DEF Distinct
<1> QED
  BY <1>0, <1>1, <1>2, <1>3, <1>4, SameBundlesInv

\* The whole chain's bypass flag is the snapshot's and the rack's.
LEMMA WholeBypassInv ==
  ASSUME IInv, NEW bypass \in BOOLEAN, SetWholeChainBypass(bypass)
  PROVE  IInv'
<1>0. /\ live \in Seq(Bundles) /\ rack = TagsOf(live) /\ Distinct(live)
      /\ MaySwap
  BY InvFacts DEF SetWholeChainBypass, MaySwap, Idle
<1>1. /\ Publish(SlotsOf(live), bypass)
      /\ live' = live /\ rack' = TagsOf(live)
      /\ rackWhole' = bypass /\ whole' = bypass
      /\ UNCHANGED <<retiring, editors, nextSlotId, shutdown, servicing>>
  BY <1>0 DEF SetWholeChainBypass, SlotsOf
<1> QED
  BY <1>0, <1>1, SameBundlesInv

\* The end of a swap: the old snapshot is dated now.
LEMMA FinishPublishInv == IInv /\ FinishPublish => IInv'
<1> SUFFICES ASSUME IInv, FinishPublish
             PROVE  IInv'
  OBVIOUS
<1> DEFINE old == [snap |-> pending, at |-> blocks]
<1>1. /\ retired' = retired \union {old} /\ old.snap = pending
      /\ pending' = NoSnapshot
      /\ UNCHANGED <<state, blocks, quiescent>> /\ UNCHANGED ownerVars
  BY DEF FinishPublish, Stamp
<1>2. ChainInv'
  BY StampInv DEF FinishPublish, IInv
<1>3. OldSnapshotsInv'
  <2>1. Procs(pending'.slots) = {}
    BY <1>1 DEF Procs, NoSnapshot
  <2>2. /\ Procs(pending.slots) \subseteq Owned
        /\ \A r \in retired : \/ blocks >= r.at + GraceBlocks
                              \/ Procs(r.snap.slots) \subseteq Owned
    BY DEF IInv, OldSnapshotsInv, GraceElapsed
  <2>3. Owned' = Owned
    BY <1>1 DEF ownerVars, Owned, LiveIds
  <2> HIDE DEF old
  <2>4. ASSUME NEW r \in retired \union {old}
        PROVE  (blocks >= r.at + GraceBlocks) \/ Procs(r.snap.slots) \subseteq Owned
    <3>1. CASE r \in retired
      BY <2>2, <3>1
    <3>2. CASE r = old
      BY <1>1, <2>2, <3>2
    <3> QED
      BY <3>1, <3>2
  <2>5. \A r \in retired' : \/ blocks' >= r.at + GraceBlocks
                           \/ Procs(r.snap.slots) \subseteq Owned'
    BY <1>1, <2>3, <2>4
  <2> QED
    BY <2>1, <2>5 DEF OldSnapshotsInv, GraceElapsed, Procs
<1> QED
  BY <1>1, <1>2, <1>3, KeepInv DEF ownerVars, IInv, TypeOK, EditorsAreLive

\* The callback counts on, so that an elapsed grace stays elapsed.
LEMMA AudioInv == IInv /\ Audio => IInv'
<1> SUFFICES ASSUME IInv, Audio
             PROVE  IInv'
  OBVIOUS
<1>0. ChainTypeOK
  BY InvFacts
<1>1. /\ UNCHANGED <<state, retired, pending, quiescent>> /\ UNCHANGED ownerVars
      /\ blocks' \in {blocks, blocks + 1}
  BY DEF Audio, Callback, CountBlock, LoadState, RunSlot, EndBlock, Detach
<1>2. ChainInv'
  BY CallbackInv DEF Audio, IInv
<1>3. OldSnapshotsInv'
  <2>1. Owned' = Owned
    BY <1>1 DEF ownerVars, Owned, LiveIds
  <2>2. \A r \in retired : GraceElapsed(r) => GraceElapsed(r)'
    BY <1>0, <1>1, ChainTypes, ChainAssumption DEF GraceElapsed
  <2>3. /\ Procs(pending.slots) \subseteq Owned
        /\ \A r \in retired : GraceElapsed(r) \/ Procs(r.snap.slots) \subseteq Owned
    BY DEF IInv, OldSnapshotsInv
  <2> QED
    BY <1>1, <2>1, <2>2, <2>3 DEF OldSnapshotsInv, GraceElapsed, Procs
<1> QED
  BY <1>1, <1>2, <1>3, KeepInv DEF ownerVars, IInv, TypeOK, EditorsAreLive

\* Opening and closing editors leaves the chain alone.
LEMMA EditorInv ==
  ASSUME IInv, NEW index \in DOMAIN live,
         \/ \E opens \in BOOLEAN : OpenEditor(index, opens)
         \/ CloseEditor(index)
  PROVE  IInv'
<1>1. /\ UNCHANGED chainVars
      /\ UNCHANGED <<rack, rackWhole, live, retiring, whole, nextSlotId,
                     shutdown, servicing>>
      /\ editors' \subseteq editors \union {live[index].id}
  BY DEF OpenEditor, CloseEditor, EditorsWithout
<1>2. ChainInv'
  BY <1>1, ChainStepInv DEF IInv
<1>3. OldSnapshotsInv'
  BY <1>1 DEF chainVars, IInv, OldSnapshotsInv, GraceElapsed, Procs, Owned, LiveIds
<1>4. editors' \subseteq LiveIds
  BY <1>1 DEF IInv, EditorsAreLive, LiveIds
<1> QED
  BY <1>1, <1>2, <1>3, <1>4, KeepInv DEF chainVars, IInv, TypeOK

\* Reaping leaves fewer old snapshots to care for.
LEMMA ServiceInv == IInv /\ Service => IInv'
<1> SUFFICES ASSUME IInv, Service
             PROVE  IInv'
  OBVIOUS
<1>1. /\ retired' \subseteq retired /\ pending = NoSnapshot /\ servicing' = TRUE
      /\ UNCHANGED <<state, blocks, pending, quiescent>>
      /\ UNCHANGED <<rack, rackWhole, live, retiring, editors, whole, nextSlotId,
                     shutdown>>
  BY DEF Service, Reap
<1>2. ChainInv'
  BY ReapInv DEF Service, IInv
<1>3. OldSnapshotsInv'
  BY <1>1 DEF IInv, OldSnapshotsInv, GraceElapsed, Procs, Owned, LiveIds
<1> QED
  BY <1>1, <1>2, <1>3, KeepInv DEF IInv, EditorsAreLive

\* Removed bundles are destroyed when the grace of every old snapshot is over.
LEMMA DestroyInv == IInv /\ DestroyRetired => IInv'
<1> SUFFICES ASSUME IInv, DestroyRetired
             PROVE  IInv'
  OBVIOUS
<1>1. /\ servicing /\ servicing' = FALSE /\ pending = NoSnapshot
      /\ retiring' = IF Settled THEN {} ELSE retiring
      /\ editors' \subseteq editors
      /\ UNCHANGED chainVars
      /\ UNCHANGED <<rack, rackWhole, live, whole, nextSlotId, shutdown>>
  BY DEF DestroyRetired, IInv
<1>2. ChainInv'
  BY <1>1, ChainStepInv DEF IInv
<1>3. CASE ~ Settled
  <2>1. OldSnapshotsInv'
    BY <1>1, <1>3
       DEF chainVars, IInv, OldSnapshotsInv, GraceElapsed, Procs, Owned, LiveIds
  <2> QED
    BY <1>1, <1>2, <1>3, <2>1, KeepInv DEF chainVars, IInv, EditorsAreLive
<1>4. CASE Settled
  <2>1. retiring' = {} /\ LiveIds' = LiveIds /\ Owned' = LiveIds
    BY <1>1, <1>4 DEF LiveIds, Owned
  <2>2. OldSnapshotsInv'
    <3>1. Procs(pending'.slots) = {}
      BY <1>1 DEF chainVars, Procs, NoSnapshot
    <3> QED
      BY <1>1, <1>4, <3>1
         DEF chainVars, OldSnapshotsInv, Settled, GraceElapsed, Procs
  <2>3. TypeOK'
    BY <1>1, <1>2, <2>1 DEF IInv, TypeOK, ChainInv
  <2>4. RackMatchesPublished'
    BY <1>1 DEF chainVars, IInv, RackMatchesPublished, Tag, SlotOf
  <2>5. SlotIdsAreDistinct' /\ EditorsAreLive'
    BY <1>1, <2>1 DEF IInv, SlotIdsAreDistinct, EditorsAreLive
  <2>6. \A id \in Owned' : id < nextSlotId'
    BY <1>1, <2>1 DEF IInv, Owned
  <2> QED
    BY <1>1, <1>2, <2>2, <2>3, <2>4, <2>5, <2>6 DEF chainVars, IInv
<1> QED
  BY <1>3, <1>4

\* The shutdown leaves nothing to agree on.
LEMMA ShutdownInv == IInv /\ QuiescentShutdown => IInv'
<1> SUFFICES ASSUME IInv, QuiescentShutdown
             PROVE  IInv'
  OBVIOUS
<1>1. /\ ~ servicing /\ pending = NoSnapshot
      /\ shutdown' = TRUE /\ quiescent' = TRUE
      /\ retired' = {} /\ pending' = pending
      /\ live' = <<>> /\ retiring' = {} /\ editors' = {}
      /\ rack' = <<>> /\ rackWhole' = FALSE /\ whole' = FALSE
      /\ UNCHANGED <<nextSlotId, servicing>>
  BY DEF QuiescentShutdown, Idle, ChainShutdown
<1>2. ChainInv'
  BY ChainShutdownInv DEF QuiescentShutdown, IInv
<1>3. LiveIds' = {} /\ Owned' = {}
  BY <1>1 DEF LiveIds, Owned
<1>4. TypeOK'
  <2>1. live' \in Seq(Bundles) /\ rack' \in Seq(Tags)
    BY <1>1
  <2>2. ChainTypeOK'
    BY <1>2 DEF ChainInv
  <2> QED
    BY <1>1, <2>1, <2>2 DEF IInv, TypeOK
<1>5. OldSnapshotsInv'
  BY <1>1 DEF OldSnapshotsInv, Procs, NoSnapshot
<1>6. SlotIdsAreDistinct' /\ EditorsAreLive' /\ RackMatchesPublished'
  BY <1>1, <1>3 DEF SlotIdsAreDistinct, EditorsAreLive, RackMatchesPublished
<1> QED
  BY <1>1, <1>2, <1>3, <1>4, <1>5, <1>6 DEF IInv

----------------------------------------------------------------------------
(* The theorems.                                                           *)

\* An owner begins with no slots and the empty snapshot published.
LEMMA InitIInv == Init => IInv
<1> SUFFICES ASSUME Init
             PROVE  IInv
  OBVIOUS
<1>1. ChainInv /\ ChainTypeOK
  BY ChainInitInv DEF Init, ChainInv
<1>2. /\ live = <<>> /\ rack = <<>> /\ retiring = {} /\ editors = {}
      /\ LiveIds = {} /\ Owned = {}
  BY DEF Init, LiveIds, Owned
<1>3. TypeOK
  <2>1. live \in Seq(Bundles) /\ rack \in Seq(Tags)
    BY <1>2
  <2>2. nextSlotId \in Nat \ {0}
    BY DEF Init
  <2>3. /\ rackWhole \in BOOLEAN /\ whole \in BOOLEAN
        /\ shutdown \in BOOLEAN /\ servicing \in BOOLEAN
    BY DEF Init
  <2> QED
    BY <1>1, <1>2, <2>1, <2>2, <2>3 DEF TypeOK
<1>4. OldSnapshotsInv
  BY DEF Init, ChainInit, OldSnapshotsInv, Procs, NoSnapshot
<1>5. RackMatchesPublished
  <2>1. TagsOf(live) = <<>> /\ SlotsOf(live) = <<>>
    BY <1>2 DEF TagsOf, SlotsOf
  <2>2. state.slots = <<>> /\ state.whole = FALSE /\ whole = FALSE /\ ~ rackWhole
    BY DEF Init, ChainInit, FirstSnapshot
  <2> QED
    BY <1>2, <2>1, <2>2 DEF Init, RackMatchesPublished, TagsOf, SlotsOf
<1>6. SlotIdsAreDistinct /\ EditorsAreLive
  BY <1>2 DEF SlotIdsAreDistinct, EditorsAreLive
<1> QED
  BY <1>1, <1>2, <1>3, <1>4, <1>5, <1>6 DEF IInv, Init, ChainInit

\* Every step keeps the invariant.
LEMMA NextIInv == IInv /\ [Next]_vars => IInv'
<1> SUFFICES ASSUME IInv, [Next]_vars
             PROVE  IInv'
  OBVIOUS
<1>1. CASE UNCHANGED vars
  <2>1. UNCHANGED chainVars /\ UNCHANGED ownerVars
    BY <1>1 DEF vars
  <2>2. ChainInv'
    BY <2>1, ChainStepInv DEF IInv
  <2>3. OldSnapshotsInv'
    BY <2>1 DEF chainVars, ownerVars, IInv, OldSnapshotsInv, GraceElapsed, Procs,
                Owned, LiveIds
  <2> QED
    BY <2>1, <2>2, <2>3, KeepInv
       DEF chainVars, ownerVars, IInv, TypeOK, EditorsAreLive
<1>2. CASE Audio
  BY <1>2, AudioInv
<1>3. ASSUME NEW index \in 0..Len(live), LoadSlotAt(index)
      PROVE  IInv'
  BY <1>3, CommitInv DEF LoadSlotAt
<1>4. CASE AddPrepared
  <2>1. Len(live) \in 0..Len(live)
    BY InvFacts, OrderTypes
  <2> QED
    BY <1>4, <2>1, CommitInv DEF AddPrepared
<1>5. ASSUME NEW index \in DOMAIN live, RemoveSlot(index)
      PROVE  IInv'
  BY <1>5, RemoveInv
<1>6. ASSUME NEW index \in DOMAIN live, NEW to \in DOMAIN live,
             MoveSlot(index, to)
      PROVE  IInv'
  BY <1>6, MoveInv
<1>7. ASSUME NEW index \in DOMAIN live, NEW on \in BOOLEAN,
             SetSlotBypass(index, on)
      PROVE  IInv'
  BY <1>7, SlotBypassInv
<1>8. ASSUME NEW index \in DOMAIN live,
             (\E on \in BOOLEAN : OpenEditor(index, on)) \/ CloseEditor(index)
      PROVE  IInv'
  BY <1>8, EditorInv
<1>9. ASSUME NEW on \in BOOLEAN, SetWholeChainBypass(on)
      PROVE  IInv'
  BY <1>9, WholeBypassInv
<1> QED
  BY <1>1, <1>2, <1>3, <1>4, <1>5, <1>6, <1>7, <1>8, <1>9, FinishPublishInv,
     ServiceInv, DestroyInv, ShutdownInv DEF Next, Owner

\* A processor the block in flight has still to run is owned: it is in the
\* published snapshot, or in an old one whose grace the block itself holds up.
LEMMA NoDanglingProcessorFacts == IInv => NoDanglingProcessor
<1> SUFFICES ASSUME IInv, cb.loaded, RunsSlots(cb.snap)
             PROVE  Due \subseteq Owned
  BY DEF NoDanglingProcessor, Due
<1>0. ChainInv /\ ChainTypeOK
  BY InvFacts
<1>1. Due \subseteq Procs(cb.snap.slots)
  <2>1. /\ cb.snap.slots \in Seq(Slots) /\ cb.next \in Nat \ {0}
    BY <1>0, ChainTypes
  <2>2. /\ Len(cb.snap.slots) \in Nat
        /\ DOMAIN cb.snap.slots = 1..Len(cb.snap.slots)
    BY <2>1, LenProperties
  <2> QED
    BY <2>1, <2>2 DEF Due, Procs
<1>2. Procs(cb.snap.slots) \subseteq Owned
  <2>1. CASE cb.snap = state
    <3>1. ~ shutdown
      BY <1>0, NoSnapshotType DEF ChainInv, IInv
    <3>2. cb.snap.slots = SlotsOf(live) /\ live \in Seq(Bundles)
      BY <2>1, <3>1, InvFacts
    <3> QED
      BY <3>2, OrderTypes, InvFacts
  <2>2. CASE cb.snap = pending
    BY <2>2 DEF IInv, OldSnapshotsInv
  <2>3. ASSUME NEW r \in retired, r.snap = cb.snap
        PROVE  Procs(cb.snap.slots) \subseteq Owned
    <3>1. ~ GraceElapsed(r)
      BY <1>0, <2>3, GraceKeepsTheBlockInFlight
    <3> QED
      BY <2>3, <3>1 DEF IInv, OldSnapshotsInv
  <2> QED
    BY <1>0, <2>1, <2>2, <2>3 DEF ChainInv, NoDanglingSnapshot
<1> QED
  BY <1>1, <1>2

\* The invariant holds in every reachable state.
LEMMA SpecIInv == Spec => []IInv
<1> QED
  BY InitIInv, NextIInv, PTL DEF Spec

\* The callback neither reads a snapshot that reap() has freed nor runs a
\* processor that serviceRetirements() has destroyed.
THEOREM NothingDangles == Spec => [](NoDanglingSnapshot /\ NoDanglingProcessor)
<1>1. IInv => NoDanglingSnapshot /\ NoDanglingProcessor
  BY NoDanglingProcessorFacts DEF IInv, ChainInv
<1> QED
  BY <1>1, SpecIInv, PTL

\* A snapshot that reap() has freed is not the one the block in flight reads.
THEOREM SnapshotsAreLive == Spec => []NoDanglingSnapshot
<1> QED BY NothingDangles, PTL

\* The product rack and the chain the callback runs are the same list: the
\* index arithmetic of moveSlot, removeSlot and commitPrepared agrees with the
\* moves of the rack for racks of every length.
THEOREM RackIsPublished == Spec => []RackMatchesPublished
<1>1. IInv => RackMatchesPublished
  BY DEF IInv
<1> QED
  BY <1>1, SpecIInv, PTL

\* A SlotId names one bundle for the owner's whole life, and an editor's
\* bundle is live.
THEOREM IdsAndEditors == Spec => [](SlotIdsAreDistinct /\ EditorsAreLive)
<1>1. IInv => SlotIdsAreDistinct /\ EditorsAreLive
  BY DEF IInv
<1> QED
  BY <1>1, SpecIInv, PTL

\* An editor is open only on a bundle that is live: removing a plug-in closes its own.
THEOREM EditorsOnLiveBundles == Spec => []EditorsAreLive
<1> QED BY IdsAndEditors, PTL

\* Every variable keeps its type.
THEOREM OwnerTypeCorrect == Spec => []TypeOK
<1>1. IInv => TypeOK
  BY DEF IInv
<1> QED
  BY <1>1, SpecIInv, PTL

=============================================================================
