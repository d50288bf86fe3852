-------------------------- MODULE DailyMixerProofs --------------------------
(***************************************************************************)
(* Two results about the daily application's chain.                        *)
(*                                                                         *)
(* What is kept of it on disk is right for every number of plug-ins, saves *)
(* and starts, whatever fails and wherever the program crashes: MixerInv.  *)
(*                                                                         *)
(* It keeps the processors its callback runs, for every number of slots,   *)
(* loads and blocks, as long as its list fits into the chain: IInv.  It    *)
(* does within a session (DailyChain) with the keys alone, which look at   *)
(* the capacity, or with so few plug-ins that the panel's button cannot    *)
(* exceed it; across starts (DailyMixer), which may bring back plug-ins    *)
(* that were missing, only with so few plug-ins.                           *)
(***************************************************************************)
EXTENDS DailyMixer, Vst3ChainProofs, FiniteSetTheorems

----------------------------------------------------------------------------
(* Lists of slots                                                          *)

\* What WFMin needs to know of the order of the numbers, to take the least of a set.
Less == {p \in Nat \X Nat : p[1] < p[2]}

LEMMA LeastNumber ==
  ASSUME NEW T, T \subseteq Nat, T # {}
  PROVE  \E n \in T : \A m \in T : n <= m
<1>1. Less = OpToRel(<, Nat)
  BY Zenon DEF Less, OpToRel
<1>2. IsWellFoundedOn(Less, Nat)
  BY <1>1, NatLessThanWellFounded, Zenon
<1>3. PICK x \in T : \A y \in T : ~(<<y, x>> \in Less)
  BY <1>2, WFMin
<1>4. \A y \in T : ~(y < x)
  BY <1>3 DEF Less
<1> QED BY <1>4

\* A set of numbers with 0 and with every successor up to a bound has all of them.
LEMMA UpTo ==
  ASSUME NEW N \in Nat, NEW G, 0 \in G,
         \A n \in 1..N : n - 1 \in G => n \in G
  PROVE  0..N \subseteq G
<1> DEFINE T == {n \in 0..N : n \notin G}
<1> SUFFICES ASSUME T # {} PROVE FALSE
  OBVIOUS
<1>1. T \subseteq Nat
  OBVIOUS
<1>2. PICK n \in T : \A m \in T : n <= m
  <2> HIDE DEF T
  <2> QED BY <1>1, LeastNumber
<1>3. n \in 1..N
  BY <1>2
<1>4. n - 1 \in 0..N /\ n - 1 < n
  BY <1>3
<1>5. n - 1 \in G
  BY <1>2, <1>4
<1> QED BY <1>2, <1>3, <1>5

Chosen(f, list, ids, n) ==
  IF n = 0 THEN <<>>
  ELSE IF list[n].proc \in ids THEN Append(f[n - 1], list[n]) ELSE f[n - 1]

\* The recursive function of Only exists.
LEMMA OnlyIsDefined ==
  ASSUME NEW list \in Seq(Slots), NEW ids
  PROVE  \E f : f = [n \in 0..Len(list) |-> Chosen(f, list, ids, n)]
<1> DEFINE G == {m \in Nat : \E f : f = [n \in 0..m |-> Chosen(f, list, ids, n)]}
<1>1. 0 \in G
  <2> DEFINE f == [n \in 0..0 |-> <<>>]
  <2>1. f = [n \in 0..0 |-> Chosen(f, list, ids, n)]
    BY DEF Chosen
  <2> QED BY <2>1
<1>2. ASSUME NEW m \in 1..Len(list), m - 1 \in G PROVE m \in G
  <2>1. PICK f : f = [n \in 0..(m - 1) |-> Chosen(f, list, ids, n)]
    BY <1>2
  <2> DEFINE g == [n \in 0..m |-> IF n = m THEN Chosen(f, list, ids, m) ELSE f[n]]
  <2>2. ASSUME NEW n \in 0..m PROVE g[n] = Chosen(g, list, ids, n)
    <3>0. n = 0 \/ (n - 1 \in 0..m /\ n - 1 # m /\ n - 1 \in 0..(m - 1))
      BY <2>2
    <3>1. n # 0 => g[n - 1] = f[n - 1]
      BY <3>0
    <3>2. Chosen(g, list, ids, n) = Chosen(f, list, ids, n)
      <4> HIDE DEF g
      <4> QED BY <3>1 DEF Chosen
    <3>3. n # m => n \in 0..(m - 1)
      OBVIOUS
    <3>4. n # m => f[n] = Chosen(f, list, ids, n)
      <4> HIDE DEF g
      <4> QED BY <2>1, <3>3
    <3> QED BY <3>2, <3>4
  <2>3. g = [n \in 0..m |-> Chosen(g, list, ids, n)]
    <3>1. g = [n \in 0..m |-> g[n]]
      OBVIOUS
    <3> HIDE DEF g
    <3> QED BY <2>2, <3>1
  <2>4. \E h : h = [n \in 0..m |-> Chosen(h, list, ids, n)]
    <3> HIDE DEF g
    <3> QED BY <2>3
  <2>5. m \in Nat
    OBVIOUS
  <2> QED BY <2>4, <2>5
<1>3. Len(list) \in 0..Len(list) /\ Len(list) \in Nat
  BY LenProperties
<1>4. Len(list) \in G
  <2> HIDE DEF G
  <2> QED BY <1>1, <1>2, <1>3, UpTo
<1> QED BY <1>4

Distinct(list) == \A i, j \in DOMAIN list : list[i].proc = list[j].proc => i = j

LEMMA OnlyFacts ==
  ASSUME NEW list \in Seq(Slots), NEW ids
  PROVE  /\ Only(list, ids) \in Seq(Slots)
         /\ Range(Only(list, ids)) = {e \in Range(list) : e.proc \in ids}
         /\ Distinct(list) => Distinct(Only(list, ids))
<1> DEFINE f == CHOOSE g : g = [n \in 0..Len(list) |-> Chosen(g, list, ids, n)]
           Part(n) == {list[i] : i \in {k \in 1..n : list[k].proc \in ids}}
           P(n) == /\ f[n] \in Seq(Slots)
                   /\ Range(f[n]) = Part(n)
                   /\ Distinct(list) => Distinct(f[n])
<1>1. f = [n \in 0..Len(list) |-> Chosen(f, list, ids, n)]
  BY OnlyIsDefined
<1>2. Only(list, ids) = f[Len(list)]
  BY DEF Only, Chosen
<1> HIDE DEF f
<1>3. Len(list) \in Nat /\ DOMAIN list = 1..Len(list)
  BY LenProperties
<1> DEFINE G == {n \in 0..Len(list) : P(n)}
<1>4. 0 \in G
  <2>1. f[0] = <<>>
    BY <1>1, <1>3 DEF Chosen
  <2>2. <<>> \in Seq(Slots) /\ Range(<<>>) = {} /\ Part(0) = {} /\ Distinct(<<>>)
    BY DEF Range, Distinct
  <2>3. 0 \in 0..Len(list)
    BY <1>3
  <2> HIDE DEF Part
  <2>4. P(0)
    BY <2>1, <2>2
  <2> QED BY <2>3, <2>4
<1>5. ASSUME NEW n \in 1..Len(list), n - 1 \in G PROVE n \in G
  <2>1. P(n - 1)
    BY <1>5
  <2>2. f[n] = IF list[n].proc \in ids THEN Append(f[n - 1], list[n]) ELSE f[n - 1]
    <3>1. n \in 0..Len(list) /\ n # 0
      BY <1>3
    <3> QED BY <1>1, <3>1 DEF Chosen
  <2>3. list[n] \in Slots
    BY <1>3, ElementOfSeq
  <2> DEFINE old == f[n - 1]
  <2>4. /\ old \in Seq(Slots) /\ Range(old) = Part(n - 1) /\ (Distinct(list) => Distinct(old))
    BY <2>1
  <2>5. 1..n = 1..(n - 1) \union {n}
    BY <1>3
  <2> HIDE DEF old
  <2>6. CASE list[n].proc \in ids
    <3> DEFINE new == Append(old, list[n])
    <3>1. f[n] = new
      BY <2>2, <2>6 DEF old
    <3>2. /\ new \in Seq(Slots) /\ Len(new) = Len(old) + 1 /\ Len(old) \in Nat
          /\ DOMAIN old = 1..Len(old) /\ DOMAIN new = 1..(Len(old) + 1)
          /\ new[Len(old) + 1] = list[n]
          /\ \A i \in 1..Len(old) : new[i] = old[i]
      BY <2>3, <2>4
    <3> HIDE DEF new
    <3>3. 1..(Len(old) + 1) = 1..Len(old) \union {Len(old) + 1}
      BY <3>2
    <3>4. Range(new) = Range(old) \union {list[n]}
      BY <3>2, <3>3 DEF Range
    <3>5. Part(n) = Part(n - 1) \union {list[n]}
      BY <2>5, <2>6
    <3>6. ASSUME Distinct(list) PROVE Distinct(new)
      <4>1. \A e \in Range(old) : e.proc # list[n].proc
        <5> SUFFICES ASSUME NEW i \in 1..(n - 1), list[i].proc = list[n].proc PROVE FALSE
          BY <2>4
        <5>1. i \in DOMAIN list /\ n \in DOMAIN list /\ i # n
          BY <1>3
        <5> QED BY <3>6, <5>1 DEF Distinct
      <4>2. \A i \in 1..Len(old) : old[i].proc # list[n].proc
        BY <3>2, <4>1 DEF Range
      <4> QED BY <2>4, <3>2, <3>3, <3>6, <4>2 DEF Distinct
    <3> HIDE DEF Part
    <3>7. P(n)
      BY <2>4, <3>1, <3>2, <3>4, <3>5, <3>6
    <3> QED BY <1>3, <3>7
  <2>7. CASE list[n].proc \notin ids
    <3>1. f[n] = old
      BY <2>2, <2>7 DEF old
    <3>2. Part(n) = Part(n - 1)
      BY <2>5, <2>7
    <3> QED BY <2>4, <3>1, <3>2, <1>3
  <2> QED BY <2>6, <2>7
<1>6. Len(list) \in G
  <2>1. Len(list) \in 0..Len(list)
    BY <1>3
  <2> HIDE DEF G
  <2> QED BY <1>3, <1>4, <1>5, <2>1, UpTo
<1>7. Part(Len(list)) = {e \in Range(list) : e.proc \in ids}
  BY <1>3 DEF Range
<1> QED BY <1>2, <1>6, <1>7

----------------------------------------------------------------------------
\* Appending a slot with an identity of its own.
LEMMA AppendFacts ==
  ASSUME NEW list \in Seq(Slots), NEW e \in Slots, Distinct(list), e.proc \notin Ids(list)
  PROVE  /\ Append(list, e) \in Seq(Slots)
         /\ Distinct(Append(list, e))
         /\ Ids(Append(list, e)) = Ids(list) \union {e.proc}
<1> DEFINE new == Append(list, e)
<1>1. /\ new \in Seq(Slots) /\ Len(list) \in Nat
      /\ DOMAIN list = 1..Len(list) /\ DOMAIN new = 1..(Len(list) + 1)
      /\ new[Len(list) + 1] = e /\ \A i \in 1..Len(list) : new[i] = list[i]
  OBVIOUS
<1>2. 1..(Len(list) + 1) = 1..Len(list) \union {Len(list) + 1}
  BY <1>1
<1> HIDE DEF new
<1>3. Ids(new) = Ids(list) \union {e.proc}
  BY <1>1, <1>2 DEF Ids
<1>4. \A i \in 1..Len(list) : list[i].proc # e.proc
  BY <1>1 DEF Ids
<1>5. Distinct(new)
  BY <1>1, <1>2, <1>4 DEF Distinct
<1> QED BY <1>1, <1>3, <1>5 DEF new

\* Erasing a slot leaves none with its identity.
LEMMA ErasedFacts ==
  ASSUME NEW list \in Seq(Slots), NEW i \in 1..Len(list), Distinct(list)
  PROVE  /\ RemoveAt(list, i) \in Seq(Slots)
         /\ Distinct(RemoveAt(list, i))
         /\ Ids(RemoveAt(list, i)) \subseteq Ids(list) \ {list[i].proc}
<1> DEFINE short == RemoveAt(list, i)
           From(k) == IF k < i THEN k ELSE k + 1
<1>0. Len(list) \in Nat /\ DOMAIN list = 1..Len(list)
  BY LenProperties
<1>1. /\ short \in Seq(Slots) /\ Len(short) = Len(list) - 1
      /\ \A k \in 1..(Len(list) - 1) : short[k] = list[From(k)]
  BY RemoveAtFacts
<1>2. DOMAIN short = 1..(Len(list) - 1)
  BY <1>0, <1>1, LenProperties
<1>3. \A k \in DOMAIN short : From(k) \in DOMAIN list /\ From(k) # i
  BY <1>0, <1>2
<1>4. \A k, m \in DOMAIN short : From(k) = From(m) => k = m
  BY <1>0, <1>2
<1> HIDE DEF short, From
<1>5. Distinct(short)
  BY <1>1, <1>2, <1>3, <1>4 DEF Distinct
<1>6. \A k \in DOMAIN short : short[k].proc \in Ids(list) \ {list[i].proc}
  BY <1>0, <1>1, <1>2, <1>3 DEF Distinct, Ids
<1>7. Ids(short) \subseteq Ids(list) \ {list[i].proc}
  BY <1>6 DEF Ids
<1> QED BY <1>1, <1>5, <1>7 DEF short

\* Putting a slot with an identity of its own anywhere.
LEMMA InsertedFacts ==
  ASSUME NEW list \in Seq(Slots), NEW i \in 1..(Len(list) + 1), NEW e \in Slots,
         Distinct(list), e.proc \notin Ids(list)
  PROVE  /\ InsertAt(list, i, e) \in Seq(Slots)
         /\ Distinct(InsertAt(list, i, e))
         /\ Ids(InsertAt(list, i, e)) \subseteq Ids(list) \union {e.proc}
<1> DEFINE long == InsertAt(list, i, e)
           From(k) == IF k < i THEN k ELSE k - 1
<1>0. Len(list) \in Nat /\ DOMAIN list = 1..Len(list)
  BY LenProperties
<1>1. /\ long \in Seq(Slots) /\ Len(long) = Len(list) + 1
      /\ \A k \in 1..(Len(list) + 1) : k # i => long[k] = list[From(k)]
      /\ long[i] = e
  BY SMTT(30), InsertAtFacts
<1>2. DOMAIN long = 1..(Len(list) + 1)
  BY <1>0, <1>1, LenProperties
<1>3. \A k \in DOMAIN long : k # i => From(k) \in DOMAIN list
  BY <1>0, <1>2
<1>4. \A k, m \in DOMAIN long : k # i /\ m # i /\ From(k) = From(m) => k = m
  BY <1>0, <1>2
<1> HIDE DEF long, From
<1>5. \A k \in DOMAIN list : list[k].proc # e.proc
  BY DEF Ids
<1>6. Distinct(long)
  BY <1>1, <1>2, <1>3, <1>4, <1>5 DEF Distinct
<1>7. \A k \in DOMAIN long : long[k].proc \in Ids(list) \union {e.proc}
  BY <1>1, <1>2, <1>3 DEF Ids
<1>8. Ids(long) \subseteq Ids(list) \union {e.proc}
  BY <1>7 DEF Ids
<1> QED BY <1>1, <1>6, <1>8 DEF long

\* Two lists with no identity in common, one after the other.
LEMMA JoinedFacts ==
  ASSUME NEW one \in Seq(Slots), NEW two \in Seq(Slots), Distinct(one), Distinct(two),
         Ids(one) \intersect Ids(two) = {}
  PROVE  /\ one \o two \in Seq(Slots)
         /\ Distinct(one \o two)
         /\ Range(one \o two) = Range(one) \union Range(two)
<1> DEFINE all == one \o two
<1>0. /\ Len(one) \in Nat /\ DOMAIN one = 1..Len(one)
      /\ Len(two) \in Nat /\ DOMAIN two = 1..Len(two)
  BY LenProperties
<1>1. /\ all \in Seq(Slots) /\ Len(all) = Len(one) + Len(two)
      /\ \A k \in 1..(Len(one) + Len(two)) :
           all[k] = IF k <= Len(one) THEN one[k] ELSE two[k - Len(one)]
  BY ConcatProperties
<1>2. DOMAIN all = 1..(Len(one) + Len(two))
  BY <1>0, <1>1, LenProperties
<1> HIDE DEF all
<1>3. \A k \in DOMAIN all : \/ k \in DOMAIN one /\ all[k] = one[k]
                            \/ k - Len(one) \in DOMAIN two /\ all[k] = two[k - Len(one)]
  BY <1>0, <1>1, <1>2
<1>4. \A k \in DOMAIN one : k \in DOMAIN all /\ all[k] = one[k]
  BY <1>0, <1>1, <1>2
<1>5. ASSUME NEW k \in DOMAIN two PROVE \E m \in DOMAIN all : all[m] = two[k]
  <2> DEFINE m == k + Len(one)
  <2>1. m \in DOMAIN all /\ ~(m <= Len(one)) /\ m - Len(one) = k
    BY <1>0, <1>2
  <2> HIDE DEF m
  <2>2. all[m] = two[m - Len(one)]
    BY <1>1, <1>2, <2>1
  <2> QED BY <2>1, <2>2
<1>6. Range(all) = Range(one) \union Range(two)
  BY <1>3, <1>4, <1>5 DEF Range
<1>7. \A k \in DOMAIN one, m \in DOMAIN two : one[k].proc # two[m].proc
  BY DEF Ids
<1>8. ASSUME NEW k \in DOMAIN all, NEW m \in DOMAIN all, all[k].proc = all[m].proc PROVE k = m
  <2>1. k \in Int /\ m \in Int
    BY <1>2
  <2>2. CASE k \in DOMAIN one /\ all[k] = one[k]
    BY <1>3, <1>7, <1>8, <2>2 DEF Distinct
  <2>3. CASE k - Len(one) \in DOMAIN two /\ all[k] = two[k - Len(one)]
    <3>1. m - Len(one) \in DOMAIN two /\ all[m] = two[m - Len(one)]
      BY <1>3, <1>7, <1>8, <2>3
    <3>2. k - Len(one) = m - Len(one)
      BY <1>8, <2>3, <3>1 DEF Distinct
    <3> QED BY <1>0, <2>1, <3>2
  <2> QED BY <1>3, <2>2, <2>3
<1> QED BY <1>1, <1>6, <1>8 DEF Distinct, all

LEMMA IdsOfRange ==
  ASSUME NEW list
  PROVE  Ids(list) = {e.proc : e \in Range(list)}
  BY DEF Ids, Range

\* A list of distinct plug-ins is no longer than there are plug-ins.
LEMMA DistinctFits ==
  ASSUME NEW list \in Seq(Slots), Distinct(list), NEW n \in Nat, Ids(list) \subseteq 1..n
  PROVE  Len(list) <= n
<1> DEFINE procs == [i \in 1..Len(list) |-> list[i].proc]
<1>1. Len(list) \in Nat /\ DOMAIN list = 1..Len(list)
  BY LenProperties
<1>2. procs \in [1..Len(list) -> 1..n]
  BY <1>1 DEF Ids
<1>3. \A i, j \in 1..Len(list) : procs[i] = procs[j] => i = j
  BY <1>1 DEF Distinct
<1>4. /\ IsFiniteSet(1..Len(list)) /\ Cardinality(1..Len(list)) = Len(list)
      /\ IsFiniteSet(1..n) /\ Cardinality(1..n) = n
  <2>1. \A m \in Nat : IsFiniteSet(1..m) /\ Cardinality(1..m) = m
    <3> TAKE m \in Nat
    <3>1. IsFiniteSet(1..m) /\ Cardinality(1..m) = IF 1 > m THEN 0 ELSE m - 1 + 1
      BY FS_Interval
    <3> QED BY <3>1
  <2> QED BY <1>1, <2>1
<1> DEFINE places == 1..Len(list)
           names == 1..n
<1> HIDE DEF procs, places, names
<1>5. ~(Cardinality(names) < Cardinality(places))
  <2>1. procs \in [places -> names] /\ IsFiniteSet(places) /\ IsFiniteSet(names)
    BY <1>2, <1>4 DEF places, names
  <2>2. \A i, j \in places : procs[i] = procs[j] => i = j
    BY <1>3 DEF places
  <2> QED BY <2>1, <2>2, FS_PigeonHole
<1> QED BY <1>1, <1>4, <1>5 DEF places, names

----------------------------------------------------------------------------
(* The chain within a session                                              *)

WithinCapacity == Gui => MaxLoads <= MaxSlots

\* The chain never rejects the list.
Fits ==
  /\ Len(slots) <= MaxSlots
  /\ loads <= MaxLoads
  /\ Gui => Len(slots) <= loads

\* What a snapshot that was swapped out names is owned until its grace has elapsed.
OldSnapshotsInv ==
  /\ Ids(pending.slots) \subseteq Owned
  /\ \A r \in retired : GraceElapsed(r) \/ Ids(r.snap.slots) \subseteq Owned

IInv ==
  /\ ChainInv
  /\ TypeOK
  /\ ~ quiescent
  /\ Fits
  /\ ListIsPublished
  /\ pending # NoSnapshot => turn = "stamp"
  /\ OldSnapshotsInv

----------------------------------------------------------------------------
LEMMA InitIInv == Init => IInv
<1> SUFFICES ASSUME Init PROVE IInv
  OBVIOUS
<1>1. ChainInv
  BY ChainInitInv DEF Init
<1>2. /\ slots = <<>> /\ Len(slots) = 0 /\ slots \in Seq(Slots)
      /\ pending = NoSnapshot /\ retired = {} /\ state = FirstSnapshot
      /\ attached /\ ~ quiescent
  BY DEF Init, ChainInit
<1>3. TypeOK
  BY <1>1, <1>2 DEF Init, TypeOK, ChainInv
<1>4. Fits
  BY <1>2, ChainAssumption, DailyAssumption DEF Init, Fits
<1>5. ListIsPublished
  BY <1>2 DEF Init, ListIsPublished, FirstSnapshot
<1>6. OldSnapshotsInv
  <2>1. Ids(pending.slots) = {}
    BY <1>2 DEF Ids, NoSnapshot
  <2> QED BY <1>2, <2>1 DEF OldSnapshotsInv
<1> QED BY <1>1, <1>2, <1>3, <1>4, <1>5, <1>6 DEF IInv

\* An operation that publishes the list it leaves behind: the snapshot it replaces is the
\* list from before, and what is gone from that was retired.
LEMMA EditInv ==
  ASSUME IInv, turn = "idle",
         NEW list \in Seq(Slots), slots' = list, NEW whole \in BOOLEAN, bypassed' = whole,
         PublishChain(list, whole),
         Fits', Ids(slots) \subseteq Ids(list) \union retiring',
         retiring \subseteq retiring', retiring' \in SUBSET Nat,
         selected' \in Nat, editor' \in Nat, openSlot' \in Nat, loads' \in Nat
  PROVE  IInv'
<1>1. ~ PublishRejected(list)
  <2>1. Len(list) <= MaxSlots
    BY DEF Fits
  <2> QED BY <2>1, LenProperties, ChainAssumption DEF IInv, PublishRejected
<1>2. turn' = "stamp" /\ Publish(list, whole)
  BY <1>1 DEF PublishChain
<1>3. /\ state'.slots = list /\ state'.whole = whole /\ pending' = state
      /\ UNCHANGED <<blocks, retired, quiescent, attached>>
  BY <1>2 DEF Publish
<1>4. ChainInv'
  BY <1>2, PublishInv DEF IInv
<1>5. TypeOK'
  BY <1>2, <1>4 DEF TypeOK, ChainInv
<1>6. ListIsPublished'
  BY <1>3 DEF ListIsPublished
<1>7. Owned \subseteq Owned'
  BY DEF Owned, Ids
<1>8. OldSnapshotsInv'
  <2>1. Ids(pending'.slots) \subseteq Owned
    BY <1>3 DEF IInv, ListIsPublished, Owned, Ids
  <2>2. \A r \in retired : GraceElapsed(r) \/ Ids(r.snap.slots) \subseteq Owned
    BY DEF IInv, OldSnapshotsInv
  <2> QED BY <1>3, <1>7, <2>1, <2>2 DEF OldSnapshotsInv, GraceElapsed, Ids
<1> QED
  BY <1>2, <1>3, <1>4, <1>5, <1>6, <1>8 DEF IInv

\* An operation that leaves the chain and its list as they are.
LEMMA KeepInv ==
  ASSUME IInv, UNCHANGED <<chainVars, slots, retiring, bypassed, loads, turn>>,
         selected' \in Nat, editor' \in Nat, openSlot' \in Nat
  PROVE  IInv'
<1>1. ChainInv'
  BY ChainStepInv DEF IInv
<1>2. /\ UNCHANGED <<state, blocks, retired, pending, quiescent, attached>>
      /\ UNCHANGED <<slots, retiring, bypassed, loads, turn>>
  BY DEF chainVars
<1>3. TypeOK'
  BY <1>1, <1>2 DEF IInv, TypeOK, ChainInv
<1>4. OldSnapshotsInv'
  BY <1>2 DEF IInv, OldSnapshotsInv, GraceElapsed, Ids, Owned
<1> QED
  BY <1>1, <1>2, <1>3, <1>4 DEF IInv, Fits, ListIsPublished

----------------------------------------------------------------------------
(* The operations on the list *)

LEMMA LoadInv ==
  ASSUME IInv, WithinCapacity, LoadByKey \/ LoadByButton
  PROVE  IInv'
<1> DEFINE new == [proc |-> loads + 1, bypass |-> FALSE]
           list == Append(slots, new)
<1>1. /\ Load /\ turn = "idle" /\ loads < MaxLoads /\ loads' = loads + 1
      /\ slots' = list /\ selected' = Len(slots) /\ bypassed' = bypassed
      /\ PublishChain(list, bypassed)
      /\ UNCHANGED <<retiring, bypassed, editor, openSlot>>
  BY DEF LoadByKey, LoadByButton, Load, MaySwap, Idle
<1>2. /\ slots \in Seq(Slots) /\ retiring \in SUBSET Nat /\ loads \in Nat
      /\ editor \in Nat /\ openSlot \in Nat /\ bypassed \in BOOLEAN
  BY DEF IInv, TypeOK
<1>3. new \in Slots
  BY <1>2 DEF Slots
<1> HIDE DEF new
<1>4. /\ list \in Seq(Slots) /\ Len(list) = Len(slots) + 1 /\ Len(slots) \in Nat
      /\ DOMAIN slots = 1..Len(slots) /\ DOMAIN list = 1..Len(slots) + 1
      /\ \A i \in 1..Len(slots) : list[i] = slots[i]
  BY <1>2, <1>3
<1>5. Ids(slots) \subseteq Ids(list)
  <2>1. \A i \in DOMAIN slots : i \in DOMAIN list /\ list[i] = slots[i]
    BY <1>4
  <2> QED BY <2>1 DEF Ids
<1>6. Fits'
  <2>1. CASE LoadByKey
    BY <1>1, <1>2, <1>4, <2>1, ChainAssumption, DailyAssumption DEF LoadByKey, IInv, Fits
  <2>2. CASE LoadByButton
    BY <1>1, <1>2, <1>4, <2>2, ChainAssumption, DailyAssumption
       DEF LoadByButton, IInv, Fits, WithinCapacity
  <2> QED BY <2>1, <2>2
<1> HIDE DEF list
<1> QED
  BY <1>1, <1>2, <1>4, <1>5, <1>6, EditInv

\* Removing moves the processor from the list to the retired ones.
LEMMA RemoveInv ==
  ASSUME IInv, NEW index \in Nat, NEW closes \in BOOLEAN, RemoveSlot(index, closes)
  PROVE  IInv'
<1> DEFINE list == RemoveAt(slots, index + 1)
           gone == slots[index + 1].proc
<1>1. /\ turn = "idle" /\ index < Len(slots)
      /\ slots' = list /\ bypassed' = bypassed /\ loads' = loads
      /\ retiring' = retiring \union {gone}
      /\ selected' = SelectedAfterRemoval
      /\ editor' \in {0, editor} /\ openSlot' \in {0, openSlot}
      /\ PublishChain(list, bypassed)
  BY DEF RemoveSlot, MaySwap, Idle
<1>2. /\ slots \in Seq(Slots) /\ retiring \in SUBSET Nat /\ loads \in Nat
      /\ editor \in Nat /\ openSlot \in Nat /\ bypassed \in BOOLEAN /\ selected \in Nat
      /\ Len(slots) \in Nat /\ DOMAIN slots = 1..Len(slots)
  BY LenProperties DEF IInv, TypeOK
<1>3. index + 1 \in 1..Len(slots) /\ slots[index + 1] \in Slots
  BY <1>1, <1>2, ElementOfSeq
<1>4. gone \in Nat
  BY <1>3 DEF Slots
<1>5. /\ list \in Seq(Slots) /\ Len(list) = Len(slots) - 1
      /\ \A k \in 1..(Len(slots) - 1) :
           list[k] = IF k < index + 1 THEN slots[k] ELSE slots[k + 1]
  BY <1>2, <1>3, RemoveAtFacts
<1> HIDE DEF list
<1>6. DOMAIN list = 1..(Len(slots) - 1)
  BY <1>2, <1>5, LenProperties
<1>7. Ids(slots) \subseteq Ids(list) \union {gone}
  <2>1. ASSUME NEW i \in DOMAIN slots, i # index + 1
        PROVE  \E k \in DOMAIN list : list[k] = slots[i]
    <3>1. CASE i < index + 1
      <4>1. i \in 1..(Len(slots) - 1) /\ list[i] = slots[i]
        BY <1>2, <1>3, <1>5, <2>1, <3>1
      <4> QED BY <1>6, <4>1
    <3>2. CASE i > index + 1
      <4> DEFINE k == i - 1
      <4>1. k \in 1..(Len(slots) - 1) /\ ~ (k < index + 1) /\ k + 1 = i
        BY <1>2, <1>3, <2>1, <3>2
      <4> HIDE DEF k
      <4>2. list[k] = slots[k + 1]
        BY <1>5, <4>1
      <4> QED BY <1>6, <4>1, <4>2
    <3> QED BY <1>2, <2>1, <3>1, <3>2
  <2> QED BY <2>1 DEF Ids
<1>8. Fits'
  BY <1>1, <1>2, <1>5, ChainAssumption, DailyAssumption DEF IInv, Fits
<1>9. selected' \in Nat
  BY <1>1, <1>2 DEF SelectedAfterRemoval
<1> HIDE DEF gone
<1> QED
  BY <1>1, <1>2, <1>4, <1>5, <1>7, <1>8, <1>9, EditInv

\* Moving erases the slot and puts it back elsewhere.
LEMMA MoveInv ==
  ASSUME IInv, NEW to \in Int, Move(to)
  PROVE  IInv'
<1> DEFINE short == RemoveAt(slots, selected + 1)
           moved == slots[selected + 1]
           list == InsertAt(short, to + 1, moved)
<1>1. /\ turn = "idle" /\ selected < Len(slots) /\ to \in 0..(Len(slots) - 1)
      /\ slots' = list /\ selected' = to /\ PublishChain(list, bypassed)
      /\ UNCHANGED <<retiring, bypassed, editor, openSlot, loads>>
  BY DEF Move, MaySwap, Idle
<1>2. /\ slots \in Seq(Slots) /\ retiring \in SUBSET Nat /\ loads \in Nat
      /\ editor \in Nat /\ openSlot \in Nat /\ bypassed \in BOOLEAN /\ selected \in Nat
      /\ Len(slots) \in Nat /\ DOMAIN slots = 1..Len(slots)
  BY LenProperties DEF IInv, TypeOK
<1>3. selected + 1 \in 1..Len(slots) /\ moved \in Slots
  BY <1>1, <1>2, ElementOfSeq
<1>4. /\ short \in Seq(Slots) /\ Len(short) = Len(slots) - 1
      /\ \A k \in 1..(Len(slots) - 1) :
           short[k] = IF k < selected + 1 THEN slots[k] ELSE slots[k + 1]
  BY <1>2, <1>3, RemoveAtFacts
<1> HIDE DEF short, moved
<1>5. to + 1 \in 1..(Len(short) + 1)
  BY <1>1, <1>2, <1>4
<1>6. /\ list \in Seq(Slots) /\ Len(list) = Len(slots)
      /\ \A k \in 1..Len(slots) :
           list[k] = IF k < to + 1 THEN short[k]
                     ELSE IF k = to + 1 THEN moved ELSE short[k - 1]
  <2>1. /\ list \in Seq(Slots) /\ Len(list) = Len(short) + 1
        /\ \A k \in 1..(Len(short) + 1) :
             list[k] = IF k < to + 1 THEN short[k]
                       ELSE IF k = to + 1 THEN moved ELSE short[k - 1]
    <3> DEFINE place == to + 1
    <3>1. short \in Seq(Slots) /\ place \in 1..(Len(short) + 1) /\ moved \in Slots
      BY <1>3, <1>4, <1>5
    <3> HIDE DEF place
    <3>2. /\ InsertAt(short, place, moved) \in Seq(Slots)
          /\ Len(InsertAt(short, place, moved)) = Len(short) + 1
          /\ \A k \in 1..(Len(short) + 1) :
               InsertAt(short, place, moved)[k] =
                 IF k < place THEN short[k] ELSE IF k = place THEN moved ELSE short[k - 1]
      BY <3>1, InsertAtFacts
    <3> QED BY <3>2 DEF place
  <2>2. Len(short) + 1 = Len(slots)
    BY <1>2, <1>4
  <2>3. 1..(Len(short) + 1) = 1..Len(slots)
    BY <2>2
  <2> HIDE DEF list
  <2>4. \A k \in 1..Len(slots) :
          list[k] = IF k < to + 1 THEN short[k]
                    ELSE IF k = to + 1 THEN moved ELSE short[k - 1]
    BY <2>1, <2>3
  <2> QED BY <2>1, <2>2, <2>4
<1> HIDE DEF list
<1>7. DOMAIN list = 1..Len(slots)
  BY <1>2, <1>6, LenProperties
<1>8. Ids(slots) \subseteq Ids(list)
  <2>1. \E k \in DOMAIN list : list[k] = moved
    <3>1. to + 1 \in 1..Len(slots) /\ list[to + 1] = moved
      BY <1>1, <1>2, <1>6
    <3> QED BY <1>7, <3>1
  <2>2. ASSUME NEW j \in 1..(Len(slots) - 1)
        PROVE  \E k \in DOMAIN list : list[k] = short[j]
    <3>1. CASE j < to + 1
      <4>1. j \in 1..Len(slots) /\ list[j] = short[j]
        BY <1>2, <1>6, <2>2, <3>1
      <4> QED BY <1>7, <4>1
    <3>2. CASE j >= to + 1
      <4> DEFINE k == j + 1
      <4>1. k \in 1..Len(slots) /\ ~ (k < to + 1) /\ k # to + 1 /\ k - 1 = j
        BY <1>1, <1>2, <2>2, <3>2
      <4> HIDE DEF k
      <4>2. list[k] = short[k - 1]
        BY <1>6, <4>1
      <4> QED BY <1>7, <4>1, <4>2
    <3> QED BY <1>1, <2>2, <3>1, <3>2
  <2>3. ASSUME NEW i \in DOMAIN slots
        PROVE  slots[i] = moved \/ \E j \in 1..(Len(slots) - 1) : slots[i] = short[j]
    <3>1. CASE i = selected + 1
      BY <3>1 DEF moved
    <3>2. CASE i < selected + 1
      <4>1. i \in 1..(Len(slots) - 1) /\ short[i] = slots[i]
        BY <1>2, <1>3, <1>4, <2>3, <3>2
      <4> QED BY <4>1
    <3>3. CASE i > selected + 1
      <4> DEFINE j == i - 1
      <4>1. j \in 1..(Len(slots) - 1) /\ ~ (j < selected + 1) /\ j + 1 = i
        BY <1>2, <1>3, <2>3, <3>3
      <4> HIDE DEF j
      <4>2. short[j] = slots[j + 1]
        BY <1>4, <4>1
      <4> QED BY <4>1, <4>2
    <3> QED BY <1>2, <2>3, <3>1, <3>2, <3>3
  <2> QED BY <2>1, <2>2, <2>3 DEF Ids
<1>9. Fits'
  BY <1>1, <1>6 DEF IInv, Fits
<1>10. selected' \in Nat
  BY <1>1, <1>2
<1> QED
  BY <1>1, <1>2, <1>6, <1>8, <1>9, <1>10, EditInv

\* A bypass flag changes no processor.
LEMMA SlotBypassInv ==
  ASSUME IInv, NEW index \in Nat, ToggleSlotBypass(index)
  PROVE  IInv'
<1> DEFINE toggled == [proc |-> slots[index + 1].proc, bypass |-> ~ slots[index + 1].bypass]
           list == [slots EXCEPT ![index + 1] = toggled]
<1>1. /\ slots \in Seq(Slots) /\ retiring \in SUBSET Nat /\ loads \in Nat
      /\ editor \in Nat /\ openSlot \in Nat /\ bypassed \in BOOLEAN /\ selected \in Nat
      /\ Len(slots) \in Nat /\ DOMAIN slots = 1..Len(slots)
  BY LenProperties DEF IInv, TypeOK
<1>2. index < Len(slots) /\ index + 1 \in 1..Len(slots)
  BY <1>1 DEF ToggleSlotBypass
<1>3. slots[index + 1] \in Slots
  BY <1>1, <1>2, ElementOfSeq
<1>4. [slots[index + 1] EXCEPT !.bypass = ~ slots[index + 1].bypass] = toggled
  BY <1>3 DEF Slots
<1>5. [slots EXCEPT ![index + 1].bypass = ~ @] = list
  BY <1>4, Zenon
<1>6. /\ turn = "idle" /\ slots' = list /\ PublishChain(list, bypassed)
      /\ UNCHANGED <<retiring, selected, bypassed, editor, openSlot, loads>>
  BY <1>5, Zenon DEF ToggleSlotBypass, MaySwap, Idle
<1>7. toggled \in Slots /\ toggled.proc = slots[index + 1].proc
  BY <1>3 DEF Slots
<1> HIDE DEF toggled
<1>8. /\ list \in Seq(Slots) /\ Len(list) = Len(slots) /\ DOMAIN list = DOMAIN slots
      /\ \A i \in DOMAIN slots : list[i] = IF i = index + 1 THEN toggled ELSE slots[i]
  BY <1>1, <1>2, <1>7, ExceptSeq
<1> HIDE DEF list
<1>9. Ids(slots) \subseteq Ids(list)
  <2>1. \A i \in DOMAIN slots : i \in DOMAIN list /\ list[i].proc = slots[i].proc
    BY <1>7, <1>8
  <2> QED BY <2>1 DEF Ids
<1>10. Fits'
  BY <1>6, <1>8 DEF IInv, Fits
<1> QED
  BY <1>1, <1>6, <1>8, <1>9, <1>10, EditInv

LEMMA WholeBypassInv ==
  ASSUME IInv, ToggleWholeBypass
  PROVE  IInv'
<1> DEFINE whole == ~ bypassed
<1>1. /\ turn = "idle" /\ slots' = slots /\ bypassed' = whole /\ PublishChain(slots, whole)
      /\ UNCHANGED <<retiring, selected, editor, openSlot, loads>>
  BY DEF ToggleWholeBypass, MaySwap, Idle
<1>2. /\ slots \in Seq(Slots) /\ retiring \in SUBSET Nat /\ loads \in Nat
      /\ editor \in Nat /\ openSlot \in Nat /\ whole \in BOOLEAN /\ selected \in Nat
  BY DEF IInv, TypeOK
<1> HIDE DEF whole
<1>3. Fits'
  BY <1>1 DEF IInv, Fits
<1> QED
  BY <1>1, <1>2, <1>3, EditInv

\* The selection and the editor are beside the point.
LEMMA SelectionInv ==
  ASSUME IInv, NEW index \in Nat, Select(index) \/ OpenEditor(index) \/ CloseEditor
  PROVE  IInv'
<1>1. /\ slots \in Seq(Slots) /\ editor \in Nat /\ openSlot \in Nat /\ selected \in Nat
      /\ Len(slots) \in Nat
  BY LenProperties DEF IInv, TypeOK
<1>2. UNCHANGED <<chainVars, slots, retiring, bypassed, loads, turn>>
  BY DEF Select, OpenEditor, CloseEditor
<1>3. CASE Select(index)
  BY <1>1, <1>2, <1>3, KeepInv DEF Select
<1>4. CASE OpenEditor(index)
  <2>1. slots[index + 1] \in Slots
    BY <1>1, <1>4, ElementOfSeq DEF OpenEditor
  <2>2. slots[index + 1].proc \in Nat
    BY <2>1 DEF Slots
  <2> QED BY <1>1, <1>2, <1>4, <2>2, KeepInv DEF OpenEditor
<1>5. CASE CloseEditor
  BY <1>1, <1>2, <1>5, KeepInv DEF CloseEditor
<1> QED BY <1>3, <1>4, <1>5

----------------------------------------------------------------------------
(* The chain's own steps *)

\* The callback counts on, so that an elapsed grace stays elapsed.
LEMMA AudioInv ==
  ASSUME IInv, Audio
  PROVE  IInv'
<1>0. ChainTypeOK
  BY DEF IInv, ChainInv
<1>1. /\ UNCHANGED <<state, retired, pending, quiescent, attached>>
      /\ UNCHANGED <<slots, retiring, selected, bypassed, editor, openSlot, loads, turn>>
      /\ blocks' \in {blocks, blocks + 1}
  BY DEF Audio, Callback, CountBlock, LoadState, RunSlot, EndBlock, ownVars
<1>2. ChainInv'
  BY CallbackInv DEF Audio, IInv
<1>3. OldSnapshotsInv'
  <2>1. \A r \in retired : GraceElapsed(r) => GraceElapsed(r)'
    BY <1>0, <1>1, ChainTypes, ChainAssumption DEF GraceElapsed
  <2>2. /\ Ids(pending.slots) \subseteq Owned
        /\ \A r \in retired : GraceElapsed(r) \/ Ids(r.snap.slots) \subseteq Owned
    BY DEF IInv, OldSnapshotsInv
  <2>3. Owned' = Owned
    BY <1>1 DEF Owned
  <2> QED BY <1>1, <2>1, <2>2, <2>3 DEF OldSnapshotsInv, GraceElapsed, Ids
<1>4. TypeOK'
  BY <1>1, <1>2 DEF IInv, TypeOK, ChainInv
<1> QED
  BY <1>1, <1>2, <1>3, <1>4 DEF IInv, Fits, ListIsPublished

\* The end of a swap: the old snapshot is dated now.
LEMMA FinishPublishInv ==
  ASSUME IInv, FinishPublish
  PROVE  IInv'
<1> DEFINE old == [snap |-> pending, at |-> blocks]
<1>1. /\ retired' = retired \union {old} /\ old.snap = pending
      /\ pending' = NoSnapshot /\ turn' = "reap"
      /\ UNCHANGED <<state, blocks, quiescent, attached>>
      /\ UNCHANGED <<slots, retiring, selected, bypassed, editor, openSlot, loads>>
  BY DEF FinishPublish, Stamp
<1>2. ChainInv'
  BY StampInv DEF FinishPublish, IInv
<1> HIDE DEF old
<1>3. OldSnapshotsInv'
  <2>1. Ids(pending'.slots) = {}
    BY <1>1 DEF Ids, NoSnapshot
  <2>2. /\ Ids(pending.slots) \subseteq Owned
        /\ \A r \in retired : GraceElapsed(r) \/ Ids(r.snap.slots) \subseteq Owned
    BY DEF IInv, OldSnapshotsInv
  <2>3. Owned' = Owned
    BY <1>1 DEF Owned
  <2>4. \A r \in retired \union {old} :
          GraceElapsed(r) \/ Ids(r.snap.slots) \subseteq Owned
    BY <1>1, <2>2
  <2> QED BY <1>1, <2>1, <2>3, <2>4 DEF OldSnapshotsInv, GraceElapsed, Ids
<1>4. TypeOK'
  BY <1>1, <1>2 DEF IInv, TypeOK, ChainInv
<1> QED
  BY <1>1, <1>2, <1>3, <1>4 DEF IInv, Fits, ListIsPublished

\* Reaping leaves fewer old snapshots to care for.
LEMMA ReapsInv ==
  ASSUME IInv, ReapAfterPublish \/ Service
  PROVE  IInv'
<1>1. /\ retired' \subseteq retired /\ turn' \in {"idle", "settle"} /\ Reap
      /\ pending = NoSnapshot
      /\ UNCHANGED <<state, blocks, pending, quiescent, attached>>
      /\ UNCHANGED <<slots, retiring, selected, bypassed, editor, openSlot, loads>>
  BY DEF ReapAfterPublish, Service, Reap
<1>2. ChainInv'
  BY <1>1, ReapInv DEF IInv
<1>3. OldSnapshotsInv'
  BY <1>1 DEF IInv, OldSnapshotsInv, GraceElapsed, Ids, Owned
<1>4. TypeOK'
  BY <1>1, <1>2 DEF IInv, TypeOK, ChainInv
<1> QED
  BY <1>1, <1>2, <1>3, <1>4 DEF IInv, Fits, ListIsPublished

\* What was removed is destroyed when every old snapshot's grace is over: only the
\* published list is left, and it is not destroyed.
LEMMA DestroyInv ==
  ASSUME IInv, DestroyRetired
  PROVE  IInv'
<1>1. /\ turn = "settle" /\ turn' = "idle"
      /\ retiring' = IF Settled THEN {} ELSE retiring
      /\ UNCHANGED <<state, blocks, retired, pending, quiescent, attached>>
      /\ UNCHANGED <<slots, selected, bypassed, editor, openSlot, loads>>
      /\ UNCHANGED chainVars
  BY DEF DestroyRetired, chainVars
<1>2. ChainInv'
  BY <1>1, ChainStepInv DEF IInv
<1>3. pending = NoSnapshot
  BY <1>1 DEF IInv
<1>4. OldSnapshotsInv'
  <2>1. Ids(pending'.slots) = {}
    BY <1>1, <1>3 DEF Ids, NoSnapshot
  <2>2. \A r \in retired : GraceElapsed(r) \/ Ids(r.snap.slots) \subseteq Owned
    BY DEF IInv, OldSnapshotsInv
  <2>3. CASE Settled
    BY <1>1, <2>1, <2>3 DEF Settled, OldSnapshotsInv, GraceElapsed
  <2>4. CASE ~ Settled
    <3>1. Owned' = Owned
      BY <1>1, <2>4 DEF Owned
    <3> QED BY <1>1, <2>1, <2>2, <3>1 DEF OldSnapshotsInv, GraceElapsed, Ids
  <2> QED BY <2>3, <2>4
<1>5. TypeOK'
  BY <1>1, <1>2 DEF IInv, TypeOK, ChainInv
<1> QED
  BY <1>1, <1>2, <1>3, <1>4, <1>5 DEF IInv, Fits, ListIsPublished

----------------------------------------------------------------------------
LEMMA NextIInv == WithinCapacity /\ IInv /\ [Next]_vars => IInv'
<1> SUFFICES ASSUME WithinCapacity, IInv, [Next]_vars PROVE IInv'
  OBVIOUS
<1>0. /\ selected \in Nat /\ editor \in Nat /\ openSlot \in Nat
      /\ slots \in Seq(Slots) /\ Len(slots) \in Nat
  BY LenProperties DEF IInv, TypeOK
<1>1. CASE UNCHANGED vars
  BY <1>0, <1>1, KeepInv DEF vars, ownVars
<1>2. CASE Audio
  BY <1>2, AudioInv
<1>3. CASE LoadByKey \/ LoadByButton
  BY <1>3, LoadInv
<1>4. CASE RemoveByKey
  <2>1. (editor # 0 /\ (Channel = 2 => selected = openSlot)) \in BOOLEAN
    OBVIOUS
  <2> QED BY <1>0, <1>4, <2>1, RemoveInv DEF RemoveByKey
<1>5. CASE Move(selected - 1) \/ Move(selected + 1)
  <2>1. selected - 1 \in Int /\ selected + 1 \in Int
    BY <1>0
  <2> QED BY <1>5, <2>1, MoveInv
<1>6. CASE ToggleSlotBypass(selected) \/ ToggleWholeBypass
  BY <1>0, <1>6, SlotBypassInv, WholeBypassInv
<1>7. CASE OpenByKey \/ CloseEditor
  BY <1>0, <1>7, SelectionInv DEF OpenByKey
<1>8. ASSUME NEW index \in 0..(Len(slots) - 1),
             \/ Select(index)
             \/ Gui /\ (ToggleSlotBypass(index) \/ OpenEditor(index))
             \/ RemoveByButton(index)
      PROVE  IInv'
  <2>1. index \in Nat
    BY <1>0
  <2>2. (editor # 0 /\ selected = index) \in BOOLEAN
    OBVIOUS
  <2> QED BY <1>8, <2>1, <2>2, SelectionInv, SlotBypassInv, RemoveInv DEF RemoveByButton
<1>9. CASE FinishPublish \/ ReapAfterPublish \/ Service \/ DestroyRetired
  BY <1>9, FinishPublishInv, ReapsInv, DestroyInv
<1> QED
  BY <1>1, <1>2, <1>3, <1>4, <1>5, <1>6, <1>7, <1>8, <1>9 DEF Next, Control

\* A processor the block in flight has still to run is in the published list, or in an
\* old one whose grace the block itself holds up.
LEMMA DueIsOwned == IInv => NoDanglingProcessor
<1> SUFFICES ASSUME IInv, cb.loaded, RunsSlots(cb.snap)
             PROVE  Due \subseteq Owned
  BY DEF NoDanglingProcessor, Due
<1>0. ChainInv /\ ChainTypeOK
  BY DEF IInv, ChainInv
<1>1. Due \subseteq Ids(cb.snap.slots)
  <2>1. /\ cb.snap.slots \in Seq(Slots) /\ cb.next \in Nat \ {0}
    BY <1>0, ChainTypes
  <2>2. /\ Len(cb.snap.slots) \in Nat
        /\ DOMAIN cb.snap.slots = 1..Len(cb.snap.slots)
    BY <2>1, LenProperties
  <2> QED BY <2>1, <2>2 DEF Due, Ids
<1>2. Ids(cb.snap.slots) \subseteq Owned
  <2>1. CASE cb.snap = state
    BY <2>1 DEF IInv, ListIsPublished, Ids, Owned
  <2>2. CASE cb.snap = pending
    BY <2>2 DEF IInv, OldSnapshotsInv
  <2>3. ASSUME NEW r \in retired, r.snap = cb.snap
        PROVE  Ids(cb.snap.slots) \subseteq Owned
    <3>1. ~ GraceElapsed(r)
      BY <1>0, <2>3, GraceKeepsTheBlockInFlight
    <3> QED BY <2>3, <3>1 DEF IInv, OldSnapshotsInv
  <2> QED BY <1>0, <2>1, <2>2, <2>3 DEF ChainInv, NoDanglingSnapshot
<1> QED BY <1>1, <1>2

\* The invariant holds in every reachable state.
LEMMA SpecIInv ==
  ASSUME WithinCapacity
  PROVE  Spec => []IInv
<1>1. IInv /\ [Next]_vars => IInv'
  BY NextIInv
<1> QED BY InitIInv, <1>1, PTL DEF Spec

----------------------------------------------------------------------------
(* What is kept on disk                                                    *)

LiveIn(inserts) == {e \in Range(inserts) : e.proc \notin missing}

MixerInv ==
  /\ slots \in Seq(Slots) /\ bypassed \in BOOLEAN /\ loads \in 0..MaxLoads
  /\ selected \in Nat
  /\ mixer.inserts \in Seq(Slots) /\ mixer.whole \in BOOLEAN
  /\ disk.inserts \in Seq(Slots) /\ disk.whole \in BOOLEAN
  /\ blobs \in [1..MaxLoads -> {"none", "written", "failed"}]
  /\ dirty \in BOOLEAN /\ saving \in {"no", "failed", "blobs"}
  /\ \A list \in {slots, mixer.inserts, disk.inserts} :
       Distinct(list) /\ Ids(list) \subseteq 1..loads
  /\ missing \subseteq Ids(mixer.inserts) /\ missing \intersect Ids(slots) = {}
  /\ StateBeforeInsert /\ MissingAreKept /\ SavedIsLive
  /\ saving = "blobs" =>
       /\ todo \subseteq Ids(slots)
       /\ mixer.whole = bypassed
       /\ LiveIn(mixer.inserts) = Range(slots)
       /\ Ids(mixer.inserts) = Ids(slots) \union missing
       /\ \A p \in Ids(slots) \ todo : blobs[p] # "none"

LEMMA RebuiltFacts ==
  ASSUME MixerInv
  PROVE  /\ Rebuilt \in Seq(Slots) /\ Distinct(Rebuilt)
         /\ LiveIn(Rebuilt) = Range(slots)
         /\ Ids(Rebuilt) = Ids(slots) \union missing
<1> DEFINE Live(p) == CHOOSE s \in Range(slots) : s.proc = p
           listed == Ids(mixer.inserts)
           kept == Only(mixer.inserts, Ids(slots) \union missing)
           fresh == [i \in DOMAIN kept |->
                       IF kept[i].proc \in Ids(slots) THEN Live(kept[i].proc) ELSE kept[i]]
           added == Without(slots, listed)
<1>0. /\ slots \in Seq(Slots) /\ mixer.inserts \in Seq(Slots)
      /\ Distinct(slots) /\ Distinct(mixer.inserts)
      /\ missing \subseteq listed /\ missing \intersect Ids(slots) = {}
  BY DEF MixerInv
<1>1. /\ kept \in Seq(Slots) /\ Distinct(kept)
      /\ Range(kept) = {e \in Range(mixer.inserts) : e.proc \in Ids(slots) \union missing}
  BY <1>0, OnlyFacts
<1>2. /\ added \in Seq(Slots) /\ Distinct(added)
      /\ Range(added) = {e \in Range(slots) : e.proc \in Ids(slots) \ listed}
  BY <1>0, OnlyFacts DEF Without
<1>3. Rebuilt = fresh \o added
  BY DEF Rebuilt
<1>4. \A e \in Range(slots) : Live(e.proc) = e
  <2>1. ASSUME NEW e \in Range(slots), NEW g \in Range(slots), e.proc = g.proc PROVE e = g
    BY <1>0, <2>1 DEF Range, Distinct
  <2>2. ASSUME NEW e \in Range(slots)
        PROVE  Live(e.proc) \in Range(slots) /\ Live(e.proc).proc = e.proc
    OBVIOUS
  <2> HIDE DEF Live
  <2> QED BY <2>1, <2>2
<1>5. \A p \in Ids(slots) : Live(p) \in Range(slots) /\ Live(p).proc = p
  <2> HIDE DEF Live
  <2> QED BY <1>4, IdsOfRange
<1>6. Range(slots) \subseteq Slots
  BY <1>0, ElementOfSeq DEF Range
<1> HIDE DEF Live, listed, added
<1>7. Len(kept) \in Nat /\ DOMAIN kept = 1..Len(kept)
  BY <1>1, LenProperties
<1>8. \A i \in DOMAIN kept : kept[i] \in Slots
  BY <1>1, ElementOfSeq
<1> HIDE DEF kept
<1>9. /\ DOMAIN fresh = DOMAIN kept
      /\ \A i \in DOMAIN kept : fresh[i] \in Slots /\ fresh[i].proc = kept[i].proc
  BY <1>5, <1>6, <1>8
<1>10. fresh \in Seq(Slots)
  BY <1>7, <1>9
<1>11. Distinct(fresh) /\ Ids(fresh) = Ids(kept)
  BY <1>1, <1>9 DEF Distinct, Ids
<1>12. Ids(kept) = (Ids(slots) \union missing) \intersect listed
  BY <1>1, IdsOfRange DEF listed
<1>13. LiveIn(fresh) = {e \in Range(slots) : e.proc \in listed}
  <2>1. ASSUME NEW i \in DOMAIN fresh, fresh[i].proc \notin missing
        PROVE  fresh[i] \in Range(slots) /\ fresh[i].proc \in listed
    <3>1. kept[i].proc \in Ids(kept)
      BY <1>9 DEF Ids
    <3>2. kept[i].proc \in Ids(slots) /\ kept[i].proc \in listed
      BY <1>9, <1>12, <2>1, <3>1
    <3> QED BY <1>5, <1>9, <3>2
  <2>2. ASSUME NEW e \in Range(slots), e.proc \in listed
        PROVE  \E i \in DOMAIN fresh : fresh[i] = e
    <3>1. e.proc \in Ids(slots)
      BY IdsOfRange
    <3>2. e.proc \in Ids(kept)
      BY <1>12, <2>2, <3>1
    <3>3. PICK i \in DOMAIN kept : kept[i].proc = e.proc
      BY <3>2 DEF Ids
    <3> QED BY <1>4, <1>9, <3>1, <3>3
  <2>3. \A e \in Range(slots) : e.proc \notin missing
    BY <1>0, IdsOfRange
  <2> HIDE DEF fresh
  <2> QED BY <2>1, <2>2, <2>3 DEF LiveIn, Range
<1> HIDE DEF fresh
<1>14. Ids(added) = Ids(slots) \ listed
  BY <1>2, IdsOfRange
<1>15. Ids(fresh) \intersect Ids(added) = {}
  BY <1>11, <1>12, <1>14
<1>16. /\ fresh \o added \in Seq(Slots) /\ Distinct(fresh \o added)
       /\ Range(fresh \o added) = Range(fresh) \union Range(added)
  BY <1>2, <1>10, <1>11, <1>15, JoinedFacts
<1>17. Ids(Rebuilt) = Ids(slots) \union missing
  <2>1. Ids(Rebuilt) = Ids(fresh) \union Ids(added)
    BY <1>3, <1>16, IdsOfRange
  <2> QED BY <1>0, <1>11, <1>12, <1>14, <2>1
<1>18. LiveIn(Rebuilt) = Range(slots)
  <2>1. LiveIn(Rebuilt) = LiveIn(fresh) \union {e \in Range(added) : e.proc \notin missing}
    BY <1>3, <1>16 DEF LiveIn
  <2>2. \A e \in Range(slots) : e.proc \notin missing /\ e.proc \in Ids(slots)
    BY <1>0, IdsOfRange
  <2>3. {e \in Range(added) : e.proc \notin missing} = {e \in Range(slots) : e.proc \notin listed}
    BY <1>2, <2>2
  <2> QED BY <1>13, <2>1, <2>3
<1> QED BY <1>3, <1>16, <1>17, <1>18

----------------------------------------------------------------------------
\* What an operation on the list may do to it.
ListIsOurs(list) ==
  /\ list \in Seq(Slots) /\ Distinct(list)
  /\ Ids(list) \subseteq Ids(slots) \union {loads + 1}

LEMMA LoadOurs ==
  ASSUME MixerInv, Load
  PROVE  /\ slots' \in Seq(Slots) /\ Distinct(slots') /\ selected' \in Nat
         /\ Ids(slots') = Ids(slots) \union {loads + 1}
         /\ bypassed' = bypassed /\ loads' = loads + 1 /\ loads < MaxLoads
<1> DEFINE new == [proc |-> loads + 1, bypass |-> FALSE]
<1>1. /\ slots' = Append(slots, new) /\ selected' = Len(slots)
      /\ bypassed' = bypassed /\ loads' = loads + 1 /\ loads < MaxLoads
  BY DEF Load
<1>2. /\ slots \in Seq(Slots) /\ Distinct(slots) /\ Ids(slots) \subseteq 1..loads /\ loads \in Nat
  BY DailyAssumption DEF MixerInv
<1>3. new \in Slots /\ new.proc = loads + 1 /\ loads + 1 \notin Ids(slots)
  BY <1>2 DEF Slots
<1> HIDE DEF new
<1> QED BY <1>1, <1>2, <1>3, AppendFacts, LenProperties

LEMMA RemoveOurs ==
  ASSUME MixerInv, NEW index \in Nat, NEW closes, RemoveSlot(index, closes)
  PROVE  /\ slots' \in Seq(Slots) /\ Distinct(slots') /\ selected' \in Nat
         /\ Ids(slots') \subseteq Ids(slots)
         /\ bypassed' = bypassed /\ loads' = loads
<1>1. /\ slots' = RemoveAt(slots, index + 1) /\ index < Len(slots)
      /\ selected' = SelectedAfterRemoval
      /\ bypassed' = bypassed /\ loads' = loads
  BY DEF RemoveSlot
<1>2. slots \in Seq(Slots) /\ Distinct(slots) /\ selected \in Nat /\ Len(slots) \in Nat
  BY LenProperties DEF MixerInv
<1>3. index + 1 \in 1..Len(slots)
  BY <1>1, <1>2
<1>4. selected' \in Nat
  BY <1>1, <1>2 DEF SelectedAfterRemoval
<1> QED BY <1>1, <1>2, <1>3, <1>4, ErasedFacts

LEMMA MoveOurs ==
  ASSUME MixerInv, NEW to \in Int, Move(to)
  PROVE  /\ slots' \in Seq(Slots) /\ Distinct(slots') /\ selected' \in Nat
         /\ Ids(slots') \subseteq Ids(slots)
         /\ bypassed' = bypassed /\ loads' = loads
<1> DEFINE short == RemoveAt(slots, selected + 1)
           moved == slots[selected + 1]
<1>1. /\ slots' = InsertAt(short, to + 1, moved)
      /\ selected < Len(slots) /\ to \in 0..(Len(slots) - 1) /\ selected' = to
      /\ bypassed' = bypassed /\ loads' = loads
  BY DEF Move
<1>2. slots \in Seq(Slots) /\ Distinct(slots) /\ selected \in Nat /\ Len(slots) \in Nat
  BY LenProperties DEF MixerInv
<1>3. selected + 1 \in 1..Len(slots) /\ moved \in Slots
  BY <1>1, <1>2, ElementOfSeq
<1>4. /\ short \in Seq(Slots) /\ Distinct(short)
      /\ Ids(short) \subseteq Ids(slots) \ {moved.proc}
  BY <1>2, <1>3, ErasedFacts
<1>5. Len(short) = Len(slots) - 1
  BY <1>2, <1>3, RemoveAtFacts
<1>6. moved.proc \in Ids(slots)
  BY <1>2, <1>3, LenProperties DEF Ids
<1> HIDE DEF short, moved
<1>7. to + 1 \in 1..(Len(short) + 1)
  BY <1>1, <1>2, <1>5
<1>8. /\ slots' \in Seq(Slots) /\ Distinct(slots')
      /\ Ids(slots') \subseteq Ids(short) \union {moved.proc}
  BY <1>1, <1>3, <1>4, <1>7, InsertedFacts
<1> QED BY <1>1, <1>2, <1>4, <1>6, <1>8

LEMMA ToggleOurs ==
  ASSUME MixerInv, NEW index \in Nat, ToggleSlotBypass(index)
  PROVE  /\ slots' \in Seq(Slots) /\ Distinct(slots') /\ selected' \in Nat
         /\ Ids(slots') \subseteq Ids(slots)
         /\ bypassed' = bypassed /\ loads' = loads
<1> DEFINE toggled == [proc |-> slots[index + 1].proc, bypass |-> ~ slots[index + 1].bypass]
           list == [slots EXCEPT ![index + 1] = toggled]
<1>1. /\ slots \in Seq(Slots) /\ Distinct(slots) /\ selected \in Nat
      /\ Len(slots) \in Nat /\ DOMAIN slots = 1..Len(slots)
  BY LenProperties DEF MixerInv
<1>2. index + 1 \in 1..Len(slots)
  BY <1>1 DEF ToggleSlotBypass
<1>3. slots[index + 1] \in Slots
  BY <1>1, <1>2, ElementOfSeq
<1>4. [slots[index + 1] EXCEPT !.bypass = ~ slots[index + 1].bypass] = toggled
  BY <1>3 DEF Slots
<1>5. [slots EXCEPT ![index + 1].bypass = ~ @] = list
  BY <1>4, Zenon
<1>6. slots' = list /\ UNCHANGED <<selected, bypassed, loads>>
  BY <1>5, Zenon DEF ToggleSlotBypass
<1>7. toggled \in Slots /\ toggled.proc = slots[index + 1].proc
  BY <1>3 DEF Slots
<1> HIDE DEF toggled
<1>8. /\ list \in Seq(Slots) /\ DOMAIN list = DOMAIN slots
      /\ \A i \in DOMAIN slots : list[i].proc = slots[i].proc
  BY <1>1, <1>2, <1>7, ExceptSeq
<1> HIDE DEF list
<1>9. Distinct(list) /\ Ids(list) = Ids(slots)
  BY <1>1, <1>8 DEF Distinct, Ids
<1> QED BY <1>1, <1>6, <1>8, <1>9

\* Every operation of the control thread leaves a list of distinct plug-ins, with one that
\* was never there before at most.
LEMMA ControlOurs ==
  ASSUME MixerInv, Control
  PROVE  /\ slots' \in Seq(Slots) /\ Distinct(slots') /\ selected' \in Nat
         /\ bypassed' \in BOOLEAN
         /\ \/ Ids(slots') \subseteq Ids(slots) /\ loads' = loads
            \/ Ids(slots') = Ids(slots) \union {loads + 1} /\ loads' = loads + 1 /\ loads < MaxLoads
<1>0. /\ slots \in Seq(Slots) /\ Distinct(slots) /\ selected \in Nat /\ bypassed \in BOOLEAN
      /\ selected - 1 \in Int /\ selected + 1 \in Int
      /\ \A index \in 0..(Len(slots) - 1) : index \in Nat
  BY DEF MixerInv
<1>1. CASE LoadByKey \/ LoadByButton
  BY <1>0, <1>1, LoadOurs DEF LoadByKey, LoadByButton
<1>2. CASE RemoveByKey \/ \E index \in 0..(Len(slots) - 1) : RemoveByButton(index)
  BY <1>0, <1>2, RemoveOurs DEF RemoveByKey, RemoveByButton
<1>3. CASE Move(selected - 1) \/ Move(selected + 1)
  BY <1>0, <1>3, MoveOurs
<1>4. CASE \/ ToggleSlotBypass(selected)
           \/ \E index \in 0..(Len(slots) - 1) : Gui /\ ToggleSlotBypass(index)
  BY <1>0, <1>4, ToggleOurs
<1>5. CASE ToggleWholeBypass
  BY <1>0, <1>5 DEF ToggleWholeBypass
<1>6. CASE \/ OpenByKey \/ CloseEditor
           \/ \E index \in 0..(Len(slots) - 1) : Select(index) \/ (Gui /\ OpenEditor(index))
  BY <1>0, <1>6 DEF OpenByKey, OpenEditor, CloseEditor, Select
<1>7. CASE FinishPublish \/ ReapAfterPublish \/ Service \/ DestroyRetired
  BY <1>0, <1>7 DEF FinishPublish, ReapAfterPublish, Service, DestroyRetired
<1> QED BY <1>1, <1>2, <1>3, <1>4, <1>5, <1>6, <1>7 DEF Control

LEMMA EditsMixerInv == MixerInv /\ Edits => MixerInv'
<1> SUFFICES ASSUME MixerInv, Edits PROVE MixerInv'
  OBVIOUS
<1>1. /\ Control /\ NotSaving
      /\ dirty' = (dirty \/ slots' # slots \/ bypassed' # bypassed)
      /\ UNCHANGED <<mixer, missing, disk, blobs, saving, todo>>
  BY DEF Edits
<1>2. /\ slots' \in Seq(Slots) /\ Distinct(slots') /\ selected' \in Nat /\ bypassed' \in BOOLEAN
      /\ \/ Ids(slots') \subseteq Ids(slots) /\ loads' = loads
         \/ Ids(slots') = Ids(slots) \union {loads + 1} /\ loads' = loads + 1 /\ loads < MaxLoads
  BY <1>1, ControlOurs
<1>3. loads \in 0..MaxLoads /\ MaxLoads \in Nat
  BY DailyAssumption DEF MixerInv
<1>4. loads' \in 0..MaxLoads /\ 1..loads \subseteq 1..loads' /\ loads + 1 \notin 1..loads
  BY <1>2, <1>3
<1>5. /\ Ids(slots) \subseteq 1..loads /\ Ids(mixer.inserts) \subseteq 1..loads
      /\ Ids(disk.inserts) \subseteq 1..loads
      /\ Distinct(mixer.inserts) /\ Distinct(disk.inserts)
      /\ missing \subseteq Ids(mixer.inserts) /\ missing \intersect Ids(slots) = {}
  BY DEF MixerInv
<1>6. Ids(slots') \subseteq 1..loads' /\ missing \intersect Ids(slots') = {}
  BY <1>2, <1>3, <1>4, <1>5
<1>7. dirty' \in BOOLEAN
  BY <1>1 DEF MixerInv
<1>8. SavedIsLive'
  BY <1>1 DEF MixerInv, SavedIsLive
<1>9. saving' # "blobs"
  BY <1>1 DEF NotSaving
<1> QED
  BY <1>1, <1>2, <1>4, <1>5, <1>6, <1>7, <1>8, <1>9
     DEF MixerInv, StateBeforeInsert, MissingAreKept

LEMMA CollectsMixerInv ==
  ASSUME MixerInv, Collects, UNCHANGED <<slots, bypassed, loads, selected>>
  PROVE  MixerInv'
<1>1. /\ NotSaving
      /\ mixer' = [inserts |-> Rebuilt, whole |-> bypassed]
      /\ saving' = "blobs" /\ todo' = Ids(slots)
      /\ UNCHANGED <<missing, disk, blobs, dirty>>
  BY DEF Collects
<1>2. /\ Rebuilt \in Seq(Slots) /\ Distinct(Rebuilt)
      /\ LiveIn(Rebuilt) = Range(slots)
      /\ Ids(Rebuilt) = Ids(slots) \union missing
  BY RebuiltFacts
<1>3. mixer'.inserts = Rebuilt /\ mixer'.whole = bypassed
  BY <1>1
<1>4. /\ Ids(slots) \subseteq 1..loads /\ missing \subseteq 1..loads
  BY DEF MixerInv
<1>5. /\ Distinct(mixer'.inserts) /\ Ids(mixer'.inserts) \subseteq 1..loads
      /\ missing \subseteq Ids(mixer'.inserts)
  BY <1>2, <1>3, <1>4
<1>6. LiveIn(mixer.inserts)' = Range(slots)'
  BY <1>1, <1>2, <1>3 DEF LiveIn
<1>7. /\ MissingAreKept' /\ StateBeforeInsert' /\ SavedIsLive'
  BY <1>1 DEF MixerInv, MissingAreKept, StateBeforeInsert, SavedIsLive
<1> QED
  BY <1>1, <1>2, <1>3, <1>4, <1>5, <1>6, <1>7 DEF MixerInv

LEMMA WritesBlobMixerInv == MixerInv /\ WritesBlob => MixerInv'
<1> SUFFICES ASSUME MixerInv, WritesBlob PROVE MixerInv'
  OBVIOUS
<1>1. /\ saving = "blobs" /\ UNCHANGED <<mixer, missing, disk, dirty, saving>>
      /\ UNCHANGED <<slots, bypassed, loads, selected>>
  BY DEF WritesBlob, vars, ownVars
<1>2. PICK p \in todo :
        /\ todo' = todo \ {p}
        /\ \/ blobs' = [blobs EXCEPT ![p] = "written"]
           \/ blobs' = [blobs EXCEPT ![p] = IF @ = "none" THEN "failed" ELSE @]
  BY DEF WritesBlob
<1>3. todo \subseteq Ids(slots) /\ blobs \in [1..MaxLoads -> {"none", "written", "failed"}]
  BY <1>1 DEF MixerInv
<1>4. \A q \in 1..MaxLoads : blobs[q] # "none" => blobs'[q] # "none"
  BY <1>2, <1>3
<1>5. p \in 1..MaxLoads
  BY <1>2, <1>3, DailyAssumption DEF MixerInv
<1>6. blobs'[p] # "none" /\ blobs' \in [1..MaxLoads -> {"none", "written", "failed"}]
  BY <1>2, <1>3, <1>5
<1>7. Ids(disk.inserts) \subseteq 1..MaxLoads /\ Ids(slots) \subseteq 1..MaxLoads
  BY DailyAssumption DEF MixerInv
<1>8. StateBeforeInsert'
  BY <1>1, <1>4, <1>7 DEF MixerInv, StateBeforeInsert
<1>9. \A q \in Ids(slots) \ todo' : blobs'[q] # "none"
  BY <1>1, <1>2, <1>4, <1>6, <1>7 DEF MixerInv
<1>10. SavedIsLive' /\ MissingAreKept'
  BY <1>1 DEF MixerInv, SavedIsLive, MissingAreKept
<1> QED
  BY <1>1, <1>2, <1>3, <1>6, <1>8, <1>9, <1>10 DEF MixerInv, LiveIn

LEMMA WritesMixerMixerInv == MixerInv /\ WritesMixer => MixerInv'
<1> SUFFICES ASSUME MixerInv, WritesMixer PROVE MixerInv'
  OBVIOUS
<1>1. /\ saving = "blobs" /\ todo = {} /\ dirty' = FALSE
      /\ \/ disk' = mixer /\ saving' = "no"
         \/ disk' = disk /\ saving' = "failed"
      /\ UNCHANGED <<mixer, missing, blobs, todo>>
      /\ UNCHANGED <<slots, bypassed, loads, selected>>
  BY DEF WritesMixer, vars, ownVars
<1>2. /\ mixer.whole = bypassed
      /\ LiveIn(mixer.inserts) = Range(slots)
      /\ Ids(mixer.inserts) = Ids(slots) \union missing
      /\ \A p \in Ids(slots) : blobs[p] # "none"
  BY <1>1 DEF MixerInv
<1>3. \A p \in missing : blobs[p] # "none"
  BY DEF MixerInv, StateBeforeInsert, MissingAreKept
<1>4. StateBeforeInsert' /\ MissingAreKept'
  BY <1>1, <1>2, <1>3 DEF MixerInv, StateBeforeInsert, MissingAreKept
<1>5. SavedIsLive'
  BY <1>1, <1>2 DEF SavedIsLive, LiveIn
<1> QED
  BY <1>1, <1>4, <1>5 DEF MixerInv

\* What a start finds is what was saved, less what is gone.
LEMMA RestartsMixerInv == MixerInv /\ Restarts => MixerInv'
<1> SUFFICES ASSUME MixerInv, NEW reads \in BOOLEAN, NEW gone, Starts(reads, gone),
                    gone \subseteq IF reads THEN Ids(disk.inserts) ELSE {}
             PROVE  MixerInv'
  BY DEF Restarts
<1> DEFINE read == IF reads THEN disk ELSE NoMixer
<1>1. /\ mixer' = read /\ missing' = gone
      /\ slots' = Without(mixer'.inserts, gone) /\ bypassed' = mixer'.whole
      /\ selected' = 0 /\ dirty' = TRUE /\ saving' = "no" /\ todo' = {}
      /\ UNCHANGED <<disk, blobs, loads>>
  BY DEF Starts
<1>2. /\ Distinct(NoMixer.inserts) /\ Ids(NoMixer.inserts) = {} /\ NoMixer.whole \in BOOLEAN
      /\ NoMixer.inserts \in Seq(Slots)
  BY DEF NoMixer, Distinct, Ids
<1>3. /\ read.inserts \in Seq(Slots) /\ read.whole \in BOOLEAN
      /\ Distinct(read.inserts) /\ Ids(read.inserts) \subseteq 1..loads
      /\ gone \subseteq Ids(read.inserts) /\ gone \subseteq Ids(disk.inserts)
  BY <1>2 DEF MixerInv
<1> HIDE DEF read
<1>4. /\ Without(read.inserts, gone) \in Seq(Slots)
      /\ Distinct(Without(read.inserts, gone))
      /\ Range(Without(read.inserts, gone))
           = {e \in Range(read.inserts) : e.proc \in Ids(read.inserts) \ gone}
  BY <1>3, OnlyFacts DEF Without
<1>5. Ids(Without(read.inserts, gone)) \subseteq Ids(read.inserts) \ gone
  BY <1>4, IdsOfRange
<1>6. SavedIsLive' /\ StateBeforeInsert' /\ MissingAreKept'
  BY <1>1, <1>3 DEF MixerInv, SavedIsLive, StateBeforeInsert, MissingAreKept
<1> QED
  BY <1>1, <1>3, <1>4, <1>5, <1>6 DEF MixerInv

LEMMA InitMixerInv == MixerInit => MixerInv
<1> SUFFICES ASSUME MixerInit PROVE MixerInv
  OBVIOUS
<1>1. /\ slots = <<>> /\ bypassed = FALSE /\ loads = 0 /\ selected = 0
      /\ mixer = NoMixer /\ disk = NoMixer /\ missing = {}
      /\ blobs = [p \in 1..MaxLoads |-> "none"] /\ dirty = TRUE /\ saving = "no" /\ todo = {}
  BY DEF MixerInit, Init
<1>2. <<>> \in Seq(Slots) /\ Distinct(<<>>) /\ Ids(<<>>) = {}
  BY DEF Distinct, Ids
<1>3. NoMixer.inserts = <<>> /\ NoMixer.whole = FALSE
  BY DEF NoMixer
<1>4. mixer.inserts = <<>> /\ disk.inserts = <<>> /\ mixer.whole = FALSE /\ disk.whole = FALSE
  BY <1>1, <1>3
<1>5. SavedIsLive /\ StateBeforeInsert /\ MissingAreKept
  BY <1>1, <1>2, <1>4 DEF SavedIsLive, StateBeforeInsert, MissingAreKept
<1>6. /\ bypassed \in BOOLEAN /\ dirty \in BOOLEAN
      /\ saving \in {"no", "failed", "blobs"} /\ saving # "blobs"
  BY <1>1
<1>8. /\ loads \in 0..MaxLoads /\ selected \in Nat
      /\ blobs \in [1..MaxLoads -> {"none", "written", "failed"}]
  BY <1>1, DailyAssumption
<1>7. /\ slots \in Seq(Slots) /\ mixer.inserts \in Seq(Slots) /\ disk.inserts \in Seq(Slots)
      /\ \A list \in {slots, mixer.inserts, disk.inserts} :
           Distinct(list) /\ Ids(list) \subseteq 1..loads
      /\ missing \subseteq Ids(mixer.inserts) /\ missing \intersect Ids(slots) = {}
  BY <1>1, <1>2, <1>4
<1> QED
  BY <1>4, <1>5, <1>6, <1>7, <1>8 DEF MixerInv

LEMMA NextMixerInv == MixerInv /\ [MixerNext]_allVars => MixerInv'
<1> SUFFICES ASSUME MixerInv, [MixerNext]_allVars PROVE MixerInv'
  OBVIOUS
<1>1. CASE Runs \/ UNCHANGED allVars
  <2>1. UNCHANGED <<slots, bypassed, loads, selected>> /\ UNCHANGED mixerVars
    BY <1>1 DEF Runs, Audio, allVars, vars, ownVars
  <2> QED
    BY <2>1 DEF mixerVars, MixerInv, LiveIn, SavedIsLive, StateBeforeInsert, MissingAreKept
<1>2. CASE Autosaves \/ Quits
  <2>1. Collects /\ UNCHANGED <<slots, bypassed, loads, selected>>
    BY <1>2 DEF Autosaves, Quits, vars, ownVars
  <2> QED BY <2>1, CollectsMixerInv
<1> QED
  BY <1>1, <1>2, EditsMixerInv, WritesBlobMixerInv, WritesMixerMixerInv, RestartsMixerInv
     DEF MixerNext

LEMMA SpecMixerInv == MixerSpec => []MixerInv
<1> QED BY InitMixerInv, NextMixerInv, PTL DEF MixerSpec

----------------------------------------------------------------------------
(* Both invariants, across the starts *)

\* The chain of a start is new, and the restored list is in it.
LEMMA RestartsIInv ==
  ASSUME MaxLoads <= MaxSlots, IInv, MixerInv, Restarts, MixerInv'
  PROVE  IInv'
<1>1. PICK reads \in BOOLEAN, gone \in SUBSET Ids(disk.inserts) : Starts(reads, gone)
  BY DEF Restarts
<1>2. /\ Publishes(slots', bypassed') /\ loads' = loads
      /\ retiring' = {} /\ selected' = 0 /\ editor' = 0 /\ openSlot' = 0
  BY <1>1 DEF Starts
<1>3. /\ slots' \in Seq(Slots) /\ bypassed' \in BOOLEAN /\ loads' \in 0..MaxLoads
      /\ Distinct(slots') /\ Ids(slots') \subseteq 1..loads'
  BY DEF MixerInv
<1>4. Len(slots') <= loads' /\ Len(slots') \in Nat
  BY <1>3, DailyAssumption, DistinctFits, LenProperties
<1>5. Len(slots') <= MaxSlots
  BY <1>3, <1>4, ChainAssumption, DailyAssumption
<1>6. /\ state' = [id |-> 2, slots |-> slots', whole |-> bypassed']
      /\ pending' = FirstSnapshot /\ turn' = "stamp"
      /\ blocks' = 0 /\ floor' = 0 /\ retired' = {}
      /\ quiescent' = FALSE /\ attached' = TRUE /\ cb' = IdleBlock
  BY <1>2, <1>5 DEF Publishes
<1>7. state' \in Snapshots /\ state'.id = 2
  BY <1>3, <1>6 DEF Snapshots
<1>8. ChainTypeOK'
  BY <1>6, <1>7, NoSnapshotType DEF ChainTypeOK
<1>9. ~cb'.loaded /\ pending'.id < state'.id
  BY <1>6, <1>7, NoSnapshotType
<1>10. ChainInv'
  BY <1>6, <1>7, <1>8, <1>9 DEF ChainInv, NoDanglingSnapshot
<1>11. TypeOK'
  BY <1>2, <1>3, <1>6, <1>8, DailyAssumption DEF TypeOK
<1>12. Fits'
  BY <1>3, <1>4, <1>5, DailyAssumption DEF Fits
<1>13. ListIsPublished'
  BY <1>6 DEF ListIsPublished
<1>14. OldSnapshotsInv'
  <2>1. Ids(pending'.slots) = {}
    BY <1>6 DEF Ids, FirstSnapshot
  <2> QED BY <1>6, <2>1 DEF OldSnapshotsInv
<1> QED
  BY <1>6, <1>10, <1>11, <1>12, <1>13, <1>14 DEF IInv

\* Nor does the end of a session, which leaves the list to the last save.
LEMMA QuitsIInv ==
  ASSUME IInv, Quits
  PROVE  IInv'
<1>1. /\ Detach /\ UNCHANGED <<state, blocks, retired, pending, quiescent>>
      /\ UNCHANGED <<slots, retiring, selected, bypassed, editor, openSlot, loads, turn>>
  BY DEF Quits, Detach, ownVars
<1>2. ChainInv'
  BY <1>1, CallbackInv DEF IInv
<1>3. TypeOK'
  BY <1>1, <1>2 DEF IInv, TypeOK, ChainInv
<1>4. OldSnapshotsInv'
  BY <1>1 DEF IInv, OldSnapshotsInv, GraceElapsed, Ids, Owned
<1> QED
  BY <1>1, <1>2, <1>3, <1>4 DEF IInv, Fits, ListIsPublished

LEMMA MixerSpecIInv ==
  ASSUME MaxLoads <= MaxSlots
  PROVE  MixerSpec => []IInv
<1>1. MixerInit => IInv
  BY InitIInv DEF MixerInit
<1>2. ASSUME IInv, MixerInv, MixerInv', [MixerNext]_allVars PROVE IInv'
  <2>0. WithinCapacity
    BY DEF WithinCapacity
  <2>1. CASE Edits \/ Runs
    <3>1. Next
      BY <2>1 DEF Edits, Runs, Next
    <3> QED BY <1>2, <2>0, <3>1, NextIInv
  <2>2. CASE Autosaves \/ WritesBlob \/ WritesMixer \/ UNCHANGED allVars
    <3>1. UNCHANGED vars
      BY <2>2 DEF Autosaves, WritesBlob, WritesMixer, allVars
    <3> QED BY <1>2, <2>0, <3>1, NextIInv
  <2>3. CASE Quits
    BY <1>2, <2>3, QuitsIInv
  <2>4. CASE Restarts
    BY <1>2, <2>4, RestartsIInv
  <2> QED BY <1>2, <2>1, <2>2, <2>3, <2>4 DEF MixerNext
<1>3. MixerSpec => []MixerInv
  BY SpecMixerInv
<1> QED BY <1>1, <1>2, <1>3, PTL DEF MixerSpec

\* What is left to write is of plug-ins there are, and starts are counted.
Tally == starts \in 0..MaxStarts /\ todo \subseteq 1..MaxLoads

\* Every step keeps both.
LEMMA NextTally ==
  ASSUME MixerInv, Tally, [MixerNext]_allVars
  PROVE  Tally'
<1>1. Ids(slots) \subseteq 1..MaxLoads /\ MaxStarts \in Nat
  BY DailyAssumption, MixerAssumption DEF MixerInv
<1>2. CASE Restarts
  <2>1. starts < MaxStarts /\ starts' = starts + 1 /\ todo' = {}
    BY <1>2 DEF Restarts, Starts
  <2> QED BY <1>1, <2>1 DEF Tally
<1>3. CASE ~Restarts
  <2>1. starts' = starts /\ (todo' = todo \/ todo' = Ids(slots) \/ \E p \in todo : todo' = todo \ {p})
    BY <1>3 DEF MixerNext, Edits, Runs, Autosaves, Quits, Collects, WritesBlob, WritesMixer,
                mixerVars, allVars
  <2> QED BY <1>1, <2>1 DEF Tally
<1> QED BY <1>2, <1>3

\* So it is from the first start on.
LEMMA SpecTally == MixerSpec => []Tally
<1>1. MixerInit => Tally
  BY MixerAssumption DEF MixerInit, Tally
<1> QED BY <1>1, NextTally, SpecMixerInv, PTL DEF MixerSpec

----------------------------------------------------------------------------
(* Results *)

\* As long as the list fits, the callback never runs a processor that the daily
\* application has destroyed: reapRetired waits for every snapshot that names it.
THEOREM DailyIsSafe ==
  ASSUME WithinCapacity
  PROVE  Spec => []NoDanglingProcessor
<1> QED BY SpecIInv, DueIsOwned, PTL

\* As long as the list fits, the callback is given the list and the bypass flag as the
\* last key or button left them: publishChain is called by every operation.
THEOREM DailyListIsPublished ==
  ASSUME WithinCapacity
  PROVE  Spec => []ListIsPublished
<1>1. IInv => ListIsPublished
  BY DEF IInv
<1> QED BY SpecIInv, <1>1, PTL

\* As long as the list fits, the lists, the selection and the chain have their types: the
\* selection, from 0, never goes below 0 when the list shrinks under it.
THEOREM DailyTypeCorrect ==
  ASSUME WithinCapacity
  PROVE  Spec => []TypeOK
<1>1. IInv => TypeOK
  BY DEF IInv
<1> QED BY SpecIInv, <1>1, PTL

\* Across crashes, starts and plug-ins that go missing and come back, the callback never
\* runs a processor that was destroyed: the list a start restores is in the new chain, as
\* long as no more plug-ins are ever loaded than the chain takes.
THEOREM MixerIsSafe ==
  ASSUME MaxLoads <= MaxSlots
  PROVE  MixerSpec => []NoDanglingProcessor
<1> QED BY MixerSpecIInv, DueIsOwned, PTL

\* Under the same condition the callback is given the list as it was restored at the start
\* and then edited.
THEOREM MixerListIsPublished ==
  ASSUME MaxLoads <= MaxSlots
  PROVE  MixerSpec => []ListIsPublished
<1>1. IInv => ListIsPublished
  BY DEF IInv
<1> QED BY MixerSpecIInv, <1>1, PTL

\* Under the same condition every variable keeps its type, through saves that fail, crashes
\* and starts; the plug-ins still to be written and the missing ones are plug-ins there were.
THEOREM MixerTypeCorrect ==
  ASSUME MaxLoads <= MaxSlots
  PROVE  MixerSpec => []MixerTypeOK
<1>1. IInv /\ MixerInv /\ Tally => MixerTypeOK
  <2> SUFFICES ASSUME IInv, MixerInv, Tally PROVE MixerTypeOK
    OBVIOUS
  <2>1. missing \subseteq 1..MaxLoads
    <3>1. missing \subseteq Ids(disk.inserts) /\ Ids(disk.inserts) \subseteq 1..loads
      BY DEF MixerInv, MissingAreKept
    <3> QED BY <3>1, DailyAssumption DEF MixerInv
  <2> QED BY <2>1 DEF IInv, MixerInv, Tally, MixerTypeOK
<1> QED BY <1>1, MixerSpecIInv, SpecMixerInv, SpecTally, PTL

\* Whenever the program crashes, each plug-in that mixer-state.json lists has had its own
\* state written before, or tried to be: saveMixerState writes the list last.
THEOREM StateIsWrittenFirst == MixerSpec => []StateBeforeInsert
<1>1. MixerInv => StateBeforeInsert
  BY DEF MixerInv
<1> QED BY SpecMixerInv, <1>1, PTL

\* A plug-in that was not there at the start is on disk for the whole session: a save
\* rebuilds the list around it, and none is lost on the way.
THEOREM MissingInsertsAreKept == MixerSpec => []MissingAreKept
<1>1. MixerInv => MissingAreKept
  BY DEF MixerInv
<1> QED BY SpecMixerInv, <1>1, PTL

\* When saveMixerState has ended well and nothing was changed since, the file lists the
\* live plug-ins with their flags, besides the missing ones, and no other.
THEOREM SavedListIsLive == MixerSpec => []SavedIsLive
<1>1. MixerInv => SavedIsLive
  BY DEF MixerInv
<1> QED BY SpecMixerInv, <1>1, PTL
=============================================================================
