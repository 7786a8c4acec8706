------------------------- MODULE HubFailoverProofs -------------------------
(***************************************************************************)
(* Proofs about the two controllers of an edge, for any endpoint list, any *)
(* answers of DNS and any dwell.  Together they keep both their promises:  *)
(* the re-resolution controller does to the failover controller only what  *)
(* HubFailover allows, and the failover controller behaves towards the     *)
(* exit selector as ExitController says.  Controller, snapshot and bind    *)
(* agree on the active endpoint, and neither a repoint nor the exhaustion  *)
(* signal comes without its cause.                                         *)
(***************************************************************************)
EXTENDS HubResolution, FiniteSetTheorems, WellFoundedInduction, TLAPS

----------------------------------------------------------------------------
(* Lemmas.                                                                 *)

\* A non-empty set of naturals has a least element.
LEMMA LeastName ==
  ASSUME NEW T \in SUBSET Nat, T # {}
  PROVE  \E x \in T : \A y \in T : x <= y
<1>1. PICK x \in T : \A y \in T : ~(<<y, x>> \in OpToRel(<, Nat))
  BY WFMin, NatLessThanWellFounded, Zenon
<1>2. ASSUME NEW y \in T PROVE x <= y
  <2>1. ~(y < x)
    BY <1>1, Zenon DEF OpToRel
  <2> QED
    BY <2>1
<1> QED
  BY <1>2

\* Specs are counted from 1.
LEMMA NamesAreNat == \A t \in Names : t \in Nat /\ t > 0
<1> SUFFICES ASSUME NEW t \in Names PROVE t \in Nat /\ t > 0
  OBVIOUS
<1>1. NSpecs \in Nat /\ t \in 1..NSpecs
  BY FailoverAssumption
<1> QED
  BY <1>1

\* The mark of no outage is no age.
LEMMA NoLossIsNoAge == NoLoss \notin Nat
BY DEF NoLoss

\* pollAll goes on to a hostname, or has done the last one.
LEMMA AfterIsName ==
  ASSUME NEW s
  PROVE  After(s) \in Names \cup {0}
<1> DEFINE later == {t \in Names : t > s}
<1>1. later \in SUBSET Nat
  BY NamesAreNat
<1>2. CASE later = {}
  BY <1>2 DEF After
<1>3. CASE later # {}
  <2>1. \E t \in later : \A u \in later : t <= u
    BY <1>1, <1>3, LeastName
  <2> QED
    BY <1>3, <2>1 DEF After
<1> QED
  BY <1>2, <1>3

\* The first poll has a hostname to look up.
LEMMA FirstName == After(0) \in Names
<1> DEFINE later == {t \in Names : t > 0}
<1>1. later \in SUBSET Nat /\ later # {}
  BY NamesAreNat, PollAssumption
<1>2. \E t \in later : \A u \in later : t <= u
  BY <1>1, LeastName
<1> QED
  BY <1>1, <1>2 DEF After

----------------------------------------------------------------------------
(* The flattened list: places and entries determine each other.            *)

Answers == Expansions \cup {<<>>}

LEMMA SlotParts ==
  ASSUME NEW lists, NEW p \in Slots(lists)
  PROVE  p[1] \in Specs /\ p[1] \in Int /\ p[1] # 0 /\ p[2] \in Int
<1>1. p \in Specs \X (1..MaxExpansion) /\ NSpecs \in Nat /\ MaxExpansion \in Nat
  BY FailoverAssumption DEF Slots
<1> QED
  BY <1>1 DEF Specs

LEMMA SlotsEqual ==
  ASSUME NEW lists, NEW p \in Slots(lists), NEW q \in Slots(lists), p[1] = q[1], p[2] = q[2]
  PROVE  p = q
BY DEF Slots

\* Of two slots the loops come to one first.
LEMMA SlotsOrdered ==
  ASSUME NEW lists, NEW p \in Slots(lists), NEW q \in Slots(lists)
  PROVE  /\ p \in Before(lists, q) \/ q \in Before(lists, p) \/ p = q
         /\ p \notin Before(lists, p)
         /\ q \in Before(lists, p) => Before(lists, q) \subseteq Before(lists, p)
<1>1. /\ p[1] \in Int /\ p[2] \in Int /\ q[1] \in Int /\ q[2] \in Int
      /\ p[1] = q[1] /\ p[2] = q[2] => p = q
  BY SlotParts, SlotsEqual
<1>2. ASSUME q \in Before(lists, p), NEW r \in Before(lists, q) PROVE r \in Before(lists, p)
  <2>1. r \in Slots(lists)
    BY DEF Before
  <2>2. r[1] \in Int /\ r[2] \in Int
    BY <2>1, SlotParts
  <2> QED
    BY <1>1, <1>2, <2>1, <2>2 DEF Before
<1>3. p \in Before(lists, q) \/ q \in Before(lists, p) \/ p = q
  BY <1>1 DEF Before
<1>4. p \notin Before(lists, p)
  BY <1>1 DEF Before
<1> QED
  BY <1>2, <1>3, <1>4

LEMMA SlotsFinite ==
  ASSUME NEW lists
  PROVE  IsFiniteSet(Slots(lists)) /\ Cardinality(Slots(lists)) \in Nat
<1>1. NSpecs \in Int /\ MaxExpansion \in Int
  BY FailoverAssumption
<1>2. IsFiniteSet(Specs) /\ IsFiniteSet(1..MaxExpansion)
  BY <1>1, FS_Interval DEF Specs
<1>3. IsFiniteSet(Specs \X (1..MaxExpansion))
  BY <1>2, FS_Product
<1>4. IsFiniteSet(Slots(lists))
  BY <1>3, FS_Subset DEF Slots
<1> QED
  BY <1>4, FS_CardinalityType

\* The flattened list has a length (flatLenLocked).
LEMMA FlatLenType == flatLen \in Nat
BY SlotsFinite DEF flatLen

\* A slot's place is within the list.
LEMMA PlaceWithin ==
  ASSUME NEW lists, NEW p \in Slots(lists)
  PROVE  /\ IsFiniteSet(Before(lists, p)) /\ Cardinality(Before(lists, p)) \in Nat
         /\ Place(lists, p) \in 1..Cardinality(Slots(lists))
<1>1. Before(lists, p) \subseteq Slots(lists) \ {p}
  BY SlotsOrdered DEF Before
<1>2. IsFiniteSet(Slots(lists) \ {p}) /\ Cardinality(Slots(lists) \ {p}) = Cardinality(Slots(lists)) - 1
  BY SlotsFinite, FS_RemoveElement
<1>3. IsFiniteSet(Before(lists, p)) /\ Cardinality(Before(lists, p)) <= Cardinality(Slots(lists)) - 1
  BY <1>1, <1>2, FS_Subset
<1>4. Cardinality(Before(lists, p)) \in Nat
  BY <1>3, FS_CardinalityType
<1> QED
  BY <1>3, <1>4, SlotsFinite DEF Place

\* The slot that the loops come to first has the smaller place.
LEMMA PlaceOrdered ==
  ASSUME NEW lists, NEW p \in Slots(lists), NEW q \in Slots(lists), q \in Before(lists, p)
  PROVE  Place(lists, q) < Place(lists, p)
<1>1. q \notin Before(lists, q)
  BY SlotsOrdered
<1>2. Before(lists, q) \cup {q} \subseteq Before(lists, p)
  BY SlotsOrdered
<1>3. Cardinality(Before(lists, q) \cup {q}) = Cardinality(Before(lists, q)) + 1
  BY <1>1, PlaceWithin, FS_AddElement
<1>4. Cardinality(Before(lists, q) \cup {q}) <= Cardinality(Before(lists, p))
  BY <1>2, PlaceWithin, FS_Subset
<1> QED
  BY <1>3, <1>4, PlaceWithin DEF Place

\* Two slots have two places.
LEMMA PlaceInjective ==
  ASSUME NEW lists, NEW p \in Slots(lists), NEW q \in Slots(lists), Place(lists, p) = Place(lists, q)
  PROVE  p = q
<1>1. p \in Before(lists, q) \/ q \in Before(lists, p) \/ p = q
  BY SlotsOrdered
<1>2. Place(lists, p) \in Int /\ Place(lists, q) \in Int
  BY PlaceWithin, SlotsFinite
<1> QED
  BY <1>1, <1>2, PlaceOrdered

\* Every place of the list has its slot.
LEMMA PlaceTaken ==
  ASSUME NEW lists, NEW k \in 1..Cardinality(Slots(lists))
  PROVE  \E p \in Slots(lists) : Place(lists, p) = k
<1> DEFINE n == Cardinality(Slots(lists))
           places == [p \in Slots(lists) |-> Place(lists, p)]
<1>1. n \in Nat
  BY SlotsFinite
<1>2. IsFiniteSet(1..n) /\ Cardinality(1..n) = n
  BY <1>1, FS_Interval
<1>3. places \in Injection(Slots(lists), 1..n)
  BY PlaceWithin, PlaceInjective DEF Injection, IsInjective
<1>4. places \in Surjection(Slots(lists), 1..n)
  BY <1>2, <1>3, FS_Injection
<1> QED
  BY <1>4 DEF Surjection

\* An expansion has no address twice, so two slots hold two entries.
LEMMA EntryInjective ==
  ASSUME NEW lists \in [Specs -> Answers], NEW p \in Slots(lists), NEW q \in Slots(lists),
         Entry(lists, p) = Entry(lists, q)
  PROVE  p = q
<1>1. p[1] = q[1] /\ lists[p[1]][p[2]] = lists[q[1]][q[2]]
  BY DEF Entry
<1>2. p[1] \in Specs /\ p[2] \in DOMAIN lists[p[1]] /\ q[2] \in DOMAIN lists[p[1]]
  BY <1>1, SlotParts DEF Slots
<1>3. lists[p[1]] \in Expansions
  BY <1>2 DEF Answers
<1>4. p[2] = q[2]
  BY <1>1, <1>2, <1>3 DEF Expansions, IsInjective
<1> QED
  BY <1>1, <1>4, SlotsEqual

\* entryAtLocked finds the entry at a place, and flatIndexLocked its place.
LEMMA EntryOfPlace ==
  ASSUME NEW lists \in [Specs -> Answers], NEW k \in 1..Cardinality(Slots(lists))
  PROVE  entryAt(lists, k) \in Entries(lists) /\ flatIndex(lists, entryAt(lists, k)) = k
<1> DEFINE p == CHOOSE s \in Slots(lists) : Place(lists, s) = k
<1>1. p \in Slots(lists) /\ Place(lists, p) = k /\ entryAt(lists, k) = Entry(lists, p)
  BY PlaceTaken DEF entryAt
<1> HIDE DEF p
<1>2. Entry(lists, p) \in Entries(lists)
  BY <1>1 DEF Entries
<1> DEFINE q == CHOOSE s \in Slots(lists) : Entry(lists, s) = Entry(lists, p)
<1>3. q \in Slots(lists) /\ Entry(lists, q) = Entry(lists, p) /\ flatIndex(lists, Entry(lists, p)) = Place(lists, q)
  BY <1>1, <1>2 DEF flatIndex
<1> HIDE DEF q
<1>4. q = p
  BY <1>1, <1>3, EntryInjective
<1> QED
  BY <1>1, <1>2, <1>3, <1>4

\* And the other way round.
LEMMA PlaceOfEntry ==
  ASSUME NEW lists \in [Specs -> Answers], NEW e \in Entries(lists)
  PROVE  /\ flatIndex(lists, e) \in 1..Cardinality(Slots(lists))
         /\ entryAt(lists, flatIndex(lists, e)) = e
<1> DEFINE p == CHOOSE s \in Slots(lists) : Entry(lists, s) = e
<1>1. p \in Slots(lists) /\ Entry(lists, p) = e /\ flatIndex(lists, e) = Place(lists, p)
  BY DEF flatIndex, Entries
<1> HIDE DEF p
<1> DEFINE q == CHOOSE s \in Slots(lists) : Place(lists, s) = Place(lists, p)
<1>2. q \in Slots(lists) /\ Place(lists, q) = Place(lists, p) /\ entryAt(lists, Place(lists, p)) = Entry(lists, q)
  BY <1>1 DEF entryAt
<1> HIDE DEF q
<1>3. q = p
  BY <1>1, <1>2, PlaceInjective
<1> QED
  BY <1>1, <1>2, <1>3, PlaceWithin

\* An entry belongs to a spec; None does not.
LEMMA EntryParts ==
  ASSUME NEW lists, NEW e \in Entries(lists)
  PROVE  /\ e # None /\ e.spec \in Specs /\ e = [spec |-> e.spec, addr |-> e.addr]
         /\ \E i \in DOMAIN lists[e.spec] : lists[e.spec][i] = e.addr
<1>1. PICK p \in Slots(lists) : e = Entry(lists, p)
  BY DEF Entries
<1>2. /\ e.spec = p[1] /\ e.addr = lists[p[1]][p[2]] /\ p[2] \in DOMAIN lists[p[1]]
      /\ e = [spec |-> e.spec, addr |-> e.addr]
  BY <1>1 DEF Entry, Slots
<1>3. None.spec = 0
  BY DEF None
<1> QED
  BY <1>2, <1>3, SlotParts

\* What DNS may answer is a non-empty sequence.
LEMMA ExpansionParts ==
  ASSUME NEW new \in Expansions
  PROVE  Len(new) \in 1..MaxExpansion /\ DOMAIN new = 1..Len(new)
<1>1. PICK m \in 0..MaxExpansion : new \in [1..m -> Addrs]
  BY DEF Expansions, BoundedSeq, SeqOf
<1>2. m \in Nat /\ MaxExpansion \in Nat
  BY FailoverAssumption
<1>3. new \in Seq(Addrs) /\ Len(new) = m
  BY <1>1, <1>2
<1>4. m # 0
  BY <1>3 DEF Expansions
<1> QED
  BY <1>1, <1>2, <1>3, <1>4

\* An address of a spec is an entry of the list.
LEMMA EntryListed ==
  ASSUME NEW lists \in [Specs -> Answers], NEW s \in Specs, NEW i \in DOMAIN lists[s]
  PROVE  [spec |-> s, addr |-> lists[s][i]] \in Entries(lists)
<1>1. lists[s] \in Expansions
  BY DEF Answers
<1>2. i \in 1..MaxExpansion
  BY <1>1, ExpansionParts, FailoverAssumption
<1>3. <<s, i>> \in Slots(lists)
  BY <1>2 DEF Slots
<1>4. Entry(lists, <<s, i>>) = [spec |-> s, addr |-> lists[s][i]]
  BY DEF Entry
<1> QED
  BY <1>3, <1>4 DEF Entries

----------------------------------------------------------------------------
(* The active endpoint.                                                    *)

\* The inductive form of OneActiveEndpoint: the controller's identity of the active
\* entry, (spec, address), is in the list whenever there is one, and the cached place
\* is computed from it.
Listed ==
  /\ addrs \in [Specs -> Answers]
  /\ active = None => Entries(addrs) = {}
  /\ active # None => active \in Entries(addrs)
  /\ idx = flatIndex(addrs, active)
  /\ installed => active # None /\ remote = active.addr

\* A list with an entry has a first one, and entryAtLocked finds it.
LEMMA HeadFound ==
  ASSUME NEW lists \in [Specs -> Answers]
  PROVE  /\ entryAt(lists, 1) # None => entryAt(lists, 1) \in Entries(lists)
         /\ entryAt(lists, 1) = None => Entries(lists) = {}
<1>1. entryAt(lists, 1) # None => entryAt(lists, 1) \in Entries(lists)
  <2>1. ASSUME \E p \in Slots(lists) : Place(lists, p) = 1
        PROVE  entryAt(lists, 1) \in Entries(lists)
    BY <2>1 DEF entryAt, Entries
  <2> QED
    BY <2>1 DEF entryAt
<1>2. ASSUME Entries(lists) # {} PROVE entryAt(lists, 1) # None
  <2>1. PICK e \in Entries(lists) : TRUE
    BY <1>2
  <2>2. 1 \in 1..Cardinality(Slots(lists))
    BY <2>1, PlaceOfEntry, SlotsFinite
  <2> QED
    BY <2>2, EntryOfPlace, EntryParts
<1> QED
  BY <1>1, <1>2

\* updateResolution leaves an active entry that is in the list.
LEMMA ResolutionListed ==
  ASSUME Listed, NEW s \in Names, NEW new \in Expansions, updateResolution(s, new)
  PROVE  Listed'
<1>1. s \in Specs
  BY FailoverAssumption DEF Specs
<1>2. /\ addrs' \in [Specs -> Answers] /\ addrs'[s] = new
      /\ \A t \in Specs : t # s => addrs'[t] = addrs[t]
  BY <1>1 DEF updateResolution, Listed, Answers
<1>3. Len(new) \in 1..MaxExpansion /\ DOMAIN new = 1..Len(new) /\ MaxExpansion \in Nat
  BY ExpansionParts, FailoverAssumption
<1>4. idx' = flatIndex(addrs', active')
  BY DEF updateResolution
<1>5. CASE Adopt
  <2>1. active' # None /\ active' \in Entries(addrs')
    BY <1>2, <1>5, HeadFound DEF Adopt
  <2>2. installed' => remote' = active'.addr
    BY <1>5 DEF Adopt, Install, Listed
  <2> QED
    BY <1>2, <1>4, <2>1, <2>2 DEF Listed
<1>6. CASE Follow(s, new)
  <2>1. active' = [spec |-> s, addr |-> addrs'[s][1]] /\ remote' = active'.addr /\ UNCHANGED installed
    BY <1>2, <1>6 DEF Follow, Repoint
  <2>2. 1 \in DOMAIN addrs'[s]
    BY <1>2, <1>3
  <2>3. active' \in Entries(addrs')
    BY <1>1, <1>2, <2>1, <2>2, EntryListed
  <2>4. active' # None
    BY <2>3, EntryParts
  <2> QED
    BY <1>2, <1>4, <2>1, <2>3, <2>4 DEF Listed
<1>7. CASE Keep(s, new)
  <2>1. UNCHANGED <<active, remote, installed>>
    BY <1>7 DEF Keep
  <2>2. ASSUME active = None PROVE Entries(addrs') = {}
    BY <1>2, <1>7, <2>2, HeadFound DEF Keep
  <2>3. ASSUME active # None PROVE active \in Entries(addrs')
    <3>1. /\ active.spec \in Specs /\ active = [spec |-> active.spec, addr |-> active.addr]
          /\ \E i \in DOMAIN addrs[active.spec] : addrs[active.spec][i] = active.addr
      BY <2>3, EntryParts DEF Listed
    <3>2. \E i \in DOMAIN addrs'[active.spec] : addrs'[active.spec][i] = active.addr
      <4>1. CASE active.spec = s
        <5>1. Contains(new, active.addr)
          BY <1>3, <1>7, <2>3, <4>1 DEF Keep, Withdrawn
        <5> QED
          BY <1>2, <1>3, <4>1, <5>1 DEF Contains
      <4>2. CASE active.spec # s
        BY <1>2, <3>1, <4>2
      <4> QED
        BY <4>1, <4>2
    <3> QED
      BY <1>2, <3>1, <3>2, EntryListed
  <2> QED
    BY <1>2, <1>4, <2>1, <2>2, <2>3 DEF Listed
<1> QED
  BY <1>5, <1>6, <1>7 DEF updateResolution

\* The active place is a place of the list, if there is one.
LEMMA ActivePlace ==
  ASSUME Listed
  PROVE  /\ flatLen \in Nat /\ idx \in 0..flatLen
         /\ flatLen > 0 => active # None /\ idx >= 1 /\ entryAt(addrs, idx) = active
<1>1. flatLen \in Nat /\ flatLen = Cardinality(Slots(addrs))
  BY FlatLenType DEF flatLen
<1>2. active # None => idx \in 1..flatLen /\ entryAt(addrs, idx) = active
  BY <1>1, PlaceOfEntry DEF Listed
<1>3. active = None => idx = 0
  BY EntryParts DEF Listed, flatIndex
<1>4. ASSUME flatLen > 0 PROVE active # None
  <2>1. 1 \in 1..Cardinality(Slots(addrs))
    BY <1>1, <1>4
  <2> QED
    BY <2>1, EntryOfPlace DEF Listed
<1> QED
  BY <1>1, <1>2, <1>3, <1>4

\* The next place is the one after the active, or the head at the end of the list.
LEMMA NextPlace ==
  ASSUME Listed, flatLen >= 2
  PROVE  NextIndex = (IF idx = flatLen THEN 1 ELSE idx + 1) /\ NextIndex \in 1..flatLen
<1>1. flatLen \in Nat /\ idx \in 0..flatLen
  BY ActivePlace
<1>2. NextIndex = (idx % flatLen) + 1
  BY DEF NextIndex, Listed
<1>3. idx % flatLen = IF idx = flatLen THEN 0 ELSE idx
  BY <1>1
<1> QED
  BY <1>1, <1>2, <1>3

LEMMA ListedStep == Listed /\ [Next]_vars => Listed'
<1> SUFFICES ASSUME Listed, [Next]_vars PROVE Listed'
  OBVIOUS
<1>1. CASE CheckUp \/ CheckSingle \/ CheckDwell
  BY <1>1 DEF CheckUp, CheckSingle, CheckDwell, Listed
<1>2. CASE Advance
  <2>1. /\ UNCHANGED <<addrs, installed>>
        /\ active' = entryAt(addrs, NextIndex) /\ idx' = NextIndex /\ remote' = active'.addr
    BY <1>2 DEF Advance, Repoint
  <2>2. NextIndex \in 1..Cardinality(Slots(addrs))
    BY <1>2, NextPlace DEF Advance, flatLen
  <2>3. active' \in Entries(addrs) /\ idx' = flatIndex(addrs, active')
    BY <2>1, <2>2, EntryOfPlace DEF Listed
  <2>4. active' # None
    BY <2>3, EntryParts
  <2> QED
    BY <2>1, <2>3, <2>4 DEF Listed
<1>3. ASSUME NEW s \in Names, NEW new \in Expansions, Resolve(s, new) PROVE Listed'
  BY <1>3, ResolutionListed DEF Resolve
<1>4. ASSUME NEW up, ChangeHubs(up) PROVE Listed'
  BY <1>4 DEF ChangeHubs, ctrl, Listed
<1>5. CASE Verdict \/ Tick \/ UNCHANGED vars
  BY <1>5 DEF Verdict, Tick, vars, ctrl, Listed
<1> QED
  BY <1>1, <1>2, <1>3, <1>4, <1>5 DEF Next, check

----------------------------------------------------------------------------
(* The resolver implements the environment of HubFailover.                 *)

\* The resolver publishes answers of DNS, and for hostnames only.
ResolverSound ==
  /\ record \in [Names -> Answers]
  /\ resolver.answer \in Answers
  /\ resolver.at \in {"asked", "answered"} => resolver.spec \in Names

\* Every step of the two loops keeps the resolver sound.
LEMMA ResolverStep == ResolverSound /\ [ResolvedNext]_allvars => ResolverSound'
<1> SUFFICES ASSUME ResolverSound, [ResolvedNext]_allvars PROVE ResolverSound'
  OBVIOUS
<1> USE DEF ResolverSound, Answers
<1>1. Resting.at = "idle" /\ Resting.answer = <<>>
  BY DEF Resting
<1>2. ASSUME NEW job, NEW s
      PROVE  At("asked", job, s).spec = s /\ At("asked", job, s).answer = <<>>
  BY DEF At
<1>3. CASE LossBegins
  BY <1>2, <1>3 DEF LossBegins
<1>4. CASE PollBegins
  BY <1>1, <1>2, <1>4, FirstName DEF PollBegins
<1>5. CASE PublishLoss
  BY <1>1, <1>5 DEF PublishLoss
<1>6. CASE PublishPoll
  <2>1. CASE After(resolver.spec) = 0
    BY <1>1, <1>6, <2>1 DEF PublishPoll
  <2>2. CASE After(resolver.spec) # 0
    <3>1. After(resolver.spec) \in Names
      BY <2>2, AfterIsName
    <3> QED
      BY <1>2, <1>6, <2>2, <3>1 DEF PublishPoll
  <2> QED
    BY <2>1, <2>2
<1>7. CASE LookupSucceeds
  BY <1>7 DEF LookupSucceeds, Lookup
<1>8. CASE LookupFails
  BY <1>8 DEF LookupFails, Lookup
<1>9. ASSUME NEW s \in Edited, NEW new \in Answers, ChangeRecord(s, new) PROVE ResolverSound'
  BY <1>9, PollAssumption DEF ChangeRecord
<1>10. CASE ResolvedTick
  BY <1>10 DEF ResolvedTick
<1>11. CASE UNCHANGED rvars
  BY <1>11 DEF rvars
<1> QED
  BY <1>3, <1>4, <1>5, <1>6, <1>7, <1>8, <1>9, <1>10, <1>11
  DEF ResolvedNext, step, allvars

\* A step of the two loops is one the failover controller's specification has.
LEMMA ResolvedStep == ResolverSound /\ [ResolvedNext]_allvars => [Next]_vars
<1> SUFFICES ASSUME ResolverSound, [ResolvedNext]_allvars PROVE [Next]_vars
  OBVIOUS
<1>1. ASSUME resolver.at = "answered", Publish PROVE [Next]_vars
  <2>1. CASE resolver.answer = <<>>
    BY <1>1, <2>1 DEF Publish
  <2>2. CASE resolver.answer # <<>>
    <3>1. resolver.spec \in Names /\ resolver.answer \in Expansions
      BY <1>1, <2>2 DEF ResolverSound, Answers
    <3> QED
      BY <1>1, <2>2, <3>1 DEF Publish, Next
  <2> QED
    BY <2>1, <2>2
<1>2. CASE step
  BY <1>1, <1>2 DEF step, LossBegins, PollBegins, PublishLoss, PublishPoll
<1>3. CASE LookupSucceeds \/ LookupFails
  BY <1>3 DEF LookupSucceeds, LookupFails, Lookup
<1>4. ASSUME NEW s, NEW new, ChangeRecord(s, new) PROVE [Next]_vars
  BY <1>4 DEF ChangeRecord
<1>5. CASE ResolvedTick
  BY <1>5 DEF ResolvedTick, Next
<1>6. CASE check \/ Verdict \/ \E up \in SUBSET Addrs : ChangeHubs(up)
  BY <1>6 DEF Next
<1>7. CASE UNCHANGED allvars
  BY <1>7 DEF allvars
<1> QED
  BY <1>2, <1>3, <1>4, <1>5, <1>6, <1>7 DEF ResolvedNext

----------------------------------------------------------------------------
(* The failover controller implements ExitController.                      *)

\* An advance of this outage is as old as the dwell that follows it, so the one
\* that completes a wrap comes when the outage has lasted for the dwell.
Dwelt ==
  /\ sinceSwitch \in 0..Settle /\ downFor \in 0..Settle \cup {NoLoss}
  /\ downAdvances \in Nat
  /\ exhaustedLatched \in BOOLEAN /\ allDown \in BOOLEAN
  /\ downAdvances >= 1 => downFor # NoLoss /\ downFor >= sinceSwitch

LEMMA InitDwelt == Init => Dwelt
<1> SUFFICES ASSUME Init PROVE Dwelt
  OBVIOUS
<1>1. /\ sinceSwitch = 0 /\ downFor = NoLoss /\ downAdvances = 0
      /\ exhaustedLatched \in BOOLEAN /\ allDown \in BOOLEAN
  BY Zenon DEF Init
<1> QED
  BY <1>1, FailoverAssumption DEF Dwelt

\* updateResolution may restart the dwell; it leaves the outage alone.
LEMMA ResolutionAlone ==
  ASSUME NEW s, NEW new, Dwelt, updateResolution(s, new)
  PROVE  /\ sinceSwitch' \in {sinceSwitch, 0}
         /\ UNCHANGED <<downFor, downAdvances, exhaustedLatched>>
BY DEF updateResolution, Adopt, Follow, Keep

\* Every step keeps the ages in order.
LEMMA DweltStep == Dwelt /\ [Next]_vars => Dwelt'
<1> SUFFICES ASSUME Dwelt, [Next]_vars PROVE Dwelt'
  OBVIOUS
<1> USE FailoverAssumption, NoLossIsNoAge DEF Dwelt
<1>1. CASE CheckUp
  <2>1. /\ downAdvances' = 0 /\ downFor' = NoLoss /\ UNCHANGED <<sinceSwitch, allDown>>
        /\ exhaustedLatched' \in BOOLEAN
    BY <1>1, Zenon DEF CheckUp, world
  <2> QED
    BY <2>1
<1>2. CASE CheckSingle
  BY <1>2 DEF CheckSingle, NotedDown, Onset, world
<1>3. CASE CheckDwell
  BY <1>3 DEF CheckDwell, NotedDown, Onset, world
<1>4. CASE Advance
  BY <1>4 DEF Advance, NotedDown, Onset
<1>5. ASSUME NEW s \in Names, NEW new \in Expansions, Resolve(s, new) PROVE Dwelt'
  BY <1>5, ResolutionAlone DEF Resolve
<1>6. ASSUME NEW up, ChangeHubs(up) PROVE Dwelt'
  BY <1>6 DEF ChangeHubs, ctrl
<1>7. CASE Verdict
  BY <1>7 DEF Verdict, ctrl
<1>8. CASE Tick
  BY <1>8 DEF Tick, Least
<1>9. CASE UNCHANGED vars
  BY <1>9 DEF vars, ctrl, world
<1> QED
  BY <1>1, <1>2, <1>3, <1>4, <1>5, <1>6, <1>7, <1>8, <1>9 DEF Next, check

\* The observed outage, as ExitController counts it.
outage == IF downFor = NoLoss THEN "never" ELSE IF downFor < Settle THEN "brief" ELSE "long"

\* Every step is a step of ExitController, or none.
LEMMA ControllerStep == Dwelt /\ [Next]_vars => [Controller!Next]_(Controller!cvars)
<1> SUFFICES ASSUME Dwelt, [Next]_vars, ~UNCHANGED <<allDown, exhaustedLatched, outage>>
             PROVE  Controller!Next
  BY DEF Controller!cvars, outage
<1> USE FailoverAssumption, NoLossIsNoAge DEF Dwelt, outage
<1>1. CASE CheckUp
  <2>1. Controller!Observe
    BY <1>1 DEF CheckUp, world, Controller!Observe
  <2> QED
    BY <2>1 DEF Controller!Next
<1>2. ASSUME NotedDown, UNCHANGED allDown, downFor = NoLoss, UNCHANGED exhaustedLatched
      PROVE  Controller!Next
  <2>1. Controller!Notice
    BY <1>2 DEF NotedDown, Onset, Controller!Notice
  <2> QED
    BY <2>1 DEF Controller!Next
<1>3. ASSUME NotedDown, UNCHANGED allDown, ~exhaustedLatched, exhaustedLatched', downFor >= Settle
      PROVE  Controller!Next
  <2>1. Controller!Exhaust
    BY <1>3 DEF NotedDown, Onset, Controller!Exhaust
  <2> QED
    BY <2>1 DEF Controller!Next
<1>4. ASSUME NotedDown, downFor # NoLoss PROVE UNCHANGED downFor
  BY <1>4 DEF NotedDown, Onset
<1>5. CASE CheckSingle
  <2>1. UNCHANGED allDown /\ exhaustedLatched' = (exhaustedLatched \/ Onset >= Settle) /\ NotedDown
    BY <1>5 DEF CheckSingle, world
  <2>2. CASE downFor = NoLoss
    <3>1. UNCHANGED exhaustedLatched
      BY <2>1, <2>2 DEF Onset
    <3> QED
      BY <1>2, <2>1, <2>2, <3>1
  <2>3. CASE downFor # NoLoss
    <3>1. UNCHANGED downFor
      BY <1>4, <2>1, <2>3
    <3>2. ~exhaustedLatched /\ exhaustedLatched' /\ downFor >= Settle
      BY <2>1, <2>3, <3>1 DEF Onset
    <3> QED
      BY <1>3, <2>1, <3>2
  <2> QED
    BY <2>2, <2>3
<1>6. CASE CheckDwell
  <2>1. UNCHANGED <<allDown, exhaustedLatched>> /\ NotedDown
    BY <1>6 DEF CheckDwell, world
  <2> QED
    BY <1>2, <1>4, <2>1
<1>7. CASE Advance
  <2>1. /\ UNCHANGED allDown /\ exhaustedLatched' = (exhaustedLatched \/ Wrapped) /\ NotedDown
        /\ flatLen >= 2 /\ sinceSwitch >= Settle
    BY <1>7 DEF Advance
  <2>2. Wrapped => downFor >= Settle
    BY <2>1, FlatLenType DEF Wrapped
  <2>3. CASE downFor = NoLoss
    <3>1. UNCHANGED exhaustedLatched
      BY <2>1, <2>2, <2>3
    <3> QED
      BY <1>2, <2>1, <2>3, <3>1
  <2>4. CASE downFor # NoLoss
    <3>1. UNCHANGED downFor
      BY <1>4, <2>1, <2>4
    <3>2. ~exhaustedLatched /\ exhaustedLatched' /\ downFor >= Settle
      BY <2>1, <2>2, <3>1
    <3> QED
      BY <1>3, <2>1, <3>2
  <2> QED
    BY <2>3, <2>4
<1>8. ASSUME NEW s \in Names, NEW new \in Expansions, Resolve(s, new) PROVE FALSE
  BY <1>8, ResolutionAlone DEF Resolve
<1>9. ASSUME NEW up, ChangeHubs(up) PROVE FALSE
  BY <1>9 DEF ChangeHubs, ctrl
<1>10. CASE Verdict
  <2>1. Controller!Verdict
    BY <1>10 DEF Verdict, ctrl, Controller!Verdict
  <2> QED
    BY <2>1 DEF Controller!Next
<1>11. CASE Tick
  <2>1. Controller!Persist
    BY <1>11 DEF Tick, Least, Controller!Persist
  <2> QED
    BY <2>1 DEF Controller!Next
<1>12. CASE UNCHANGED vars
  BY <1>12 DEF vars, ctrl, world
<1> QED
  BY <1>1, <1>5, <1>6, <1>7, <1>8, <1>9, <1>10, <1>11, <1>12 DEF Next, check

----------------------------------------------------------------------------
(* Nothing happens without its cause.                                      *)

\* The places that the last n advances have left, going round from the active one.
Left(k, n) == \/ k < idx /\ idx - k <= n
              \/ k > idx /\ idx + flatLen - k <= n

\* While the list keeps still in an outage, every entry the advances have left was
\* seen down after its dwell, and a list of one is not younger than the outage.
Circled ==
  steady => /\ \A k \in 1..flatLen : Left(k, downAdvances) => entryAt(addrs, k) \in tried
            /\ flatLen = 1 /\ downFor # NoLoss => downFor <= sinceSwitch

\* An answer that changes nothing leaves the active endpoint alone.
LEMMA SameAnswer ==
  ASSUME Listed, NEW s \in Names, NEW new \in Expansions, updateResolution(s, new), new = addrs[s]
  PROVE  UNCHANGED <<addrs, active, idx, sinceSwitch, remote>>
<1>1. UNCHANGED addrs
  BY DEF updateResolution, Listed
<1>2. Len(new) \in 1..MaxExpansion /\ DOMAIN new = 1..Len(new) /\ new # <<>>
  BY ExpansionParts DEF Expansions
<1>3. ~Adopt
  BY <1>1, HeadFound, EntryParts DEF Adopt, Listed
<1>4. ~Follow(s, new)
  <2>1. ASSUME active # None, s = active.spec PROVE Contains(new, active.addr)
    <3>1. \E i \in DOMAIN addrs[active.spec] : addrs[active.spec][i] = active.addr
      BY <2>1, EntryParts DEF Listed
    <3> QED
      BY <1>2, <2>1, <3>1 DEF Contains
  <2> QED
    BY <2>1 DEF Follow, Withdrawn
<1>5. Keep(s, new)
  BY <1>3, <1>4 DEF updateResolution
<1> QED
  BY <1>1, <1>5 DEF updateResolution, Keep, Listed

LEMMA CircledStep == Listed /\ Dwelt /\ Circled /\ [Next]_vars => Circled'
<1> SUFFICES ASSUME Listed, Dwelt, Circled, [Next]_vars PROVE Circled'
  OBVIOUS
<1> USE FailoverAssumption, NoLossIsNoAge
<1>0. /\ flatLen \in Nat /\ Settle \in Nat /\ downAdvances \in Nat
      /\ sinceSwitch \in 0..Settle /\ downFor \in 0..Settle \cup {NoLoss}
  BY FlatLenType DEF Dwelt
<1>1. ASSUME UNCHANGED <<addrs, idx, downAdvances, steady>>, tried \subseteq tried',
             steady /\ flatLen = 1 /\ downFor' # NoLoss => downFor' <= sinceSwitch'
      PROVE  Circled'
  <2>1. UNCHANGED flatLen /\ \A k : UNCHANGED entryAt(addrs, k)
    BY <1>1 DEF flatLen, entryAt
  <2> QED
    BY <1>1, <2>1 DEF Circled, Left
<1>2. NotedDown => /\ steady /\ flatLen = 1 /\ downFor' # NoLoss => downFor' <= sinceSwitch
                   /\ tried \subseteq tried' /\ UNCHANGED steady
  BY <1>0 DEF NotedDown, Onset, Circled
<1>3. CASE CheckUp
  <2>1. UNCHANGED <<addrs, idx>> /\ downAdvances' = 0 /\ downFor' = NoLoss
    BY <1>3 DEF CheckUp
  <2>2. UNCHANGED flatLen
    BY <2>1 DEF flatLen
  <2>3. idx \in 0..flatLen /\ (flatLen > 0 => idx >= 1)
    BY ActivePlace
  <2> QED
    BY <1>0, <2>1, <2>2, <2>3 DEF Circled, Left
<1>4. CASE CheckSingle
  BY <1>1, <1>2, <1>4 DEF CheckSingle
<1>5. CASE CheckDwell
  BY <1>1, <1>2, <1>5 DEF CheckDwell
<1>6. CASE Advance
  <2>1. /\ flatLen >= 2 /\ idx' = NextIndex /\ UNCHANGED <<addrs, steady>>
        /\ downAdvances' \in {0, downAdvances + 1}
        /\ steady => tried' = tried \cup {active}
    BY <1>6 DEF Advance, NotedDown
  <2>2. UNCHANGED flatLen /\ \A k : UNCHANGED entryAt(addrs, k)
    BY <2>1 DEF flatLen, entryAt
  <2>3. idx \in 1..flatLen /\ entryAt(addrs, idx) = active
    BY <1>0, <2>1, ActivePlace
  <2>4. idx' = IF idx = flatLen THEN 1 ELSE idx + 1
    BY <2>1, NextPlace
  <2>5. ASSUME steady, NEW k \in 1..flatLen, Left(k, downAdvances)' PROVE entryAt(addrs, k) \in tried'
    <3>1. k = idx \/ Left(k, downAdvances)
      BY <1>0, <2>1, <2>2, <2>3, <2>4, <2>5 DEF Left
    <3> QED
      BY <2>1, <2>3, <2>5, <3>1 DEF Circled
  <2> QED
    BY <1>0, <2>1, <2>2, <2>5 DEF Circled
<1>7. ASSUME NEW s \in Names, NEW new \in Expansions, Resolve(s, new) PROVE Circled'
  <2>1. updateResolution(s, new)
    BY <1>7 DEF Resolve
  <2>2. UNCHANGED <<downFor, downAdvances>> /\ steady' = (steady /\ new = addrs[s])
    BY <2>1 DEF updateResolution
  <2>3. CASE steady'
    <3>1. steady /\ new = addrs[s] /\ tried' = tried
      BY <2>1, <2>2, <2>3 DEF updateResolution
    <3>2. UNCHANGED <<addrs, idx, sinceSwitch>>
      BY <2>1, <3>1, SameAnswer
    <3>3. UNCHANGED flatLen /\ \A k : UNCHANGED entryAt(addrs, k)
      BY <3>2 DEF flatLen, entryAt
    <3> QED
      BY <2>2, <3>1, <3>2, <3>3 DEF Circled, Left
  <2> QED
    BY <2>3 DEF Circled
<1>8. ASSUME NEW up, ChangeHubs(up) PROVE Circled'
  <2>1. UNCHANGED <<addrs, idx, downAdvances, steady, tried, downFor, sinceSwitch>>
    BY <1>8 DEF ChangeHubs, ctrl
  <2> QED
    BY <1>1, <2>1 DEF Circled
<1>9. CASE Verdict \/ UNCHANGED vars
  <2>1. UNCHANGED <<addrs, idx, downAdvances, steady, tried, downFor, sinceSwitch>>
    BY <1>9 DEF Verdict, vars, ctrl
  <2> QED
    BY <1>1, <2>1 DEF Circled
<1>10. CASE Tick
  <2>1. UNCHANGED <<addrs, idx, downAdvances, steady, tried>>
    BY <1>10 DEF Tick
  <2>2. /\ sinceSwitch' = Least(sinceSwitch + 1, Settle)
        /\ downFor' = IF downFor = NoLoss THEN NoLoss ELSE Least(downFor + 1, Settle)
    BY <1>10 DEF Tick
  <2>3. steady /\ flatLen = 1 /\ downFor' # NoLoss => downFor' <= sinceSwitch'
    BY <1>0, <2>2 DEF Circled, Least
  <2> QED
    BY <1>1, <2>1, <2>3
<1> QED
  BY <1>3, <1>4, <1>5, <1>6, <1>7, <1>8, <1>9, <1>10 DEF Next, check

\* A repoint has one of its three causes.
LEMMA RepointCaused ==
  Listed /\ [Next]_vars
    => (remote' # remote => allDown \/ active = None \/ ~Contains(addrs'[active.spec], active.addr))
<1> SUFFICES ASSUME Listed, [Next]_vars, remote' # remote, ~allDown, active # None
             PROVE  ~Contains(addrs'[active.spec], active.addr)
  OBVIOUS
<1>1. ~check /\ ~Verdict /\ ~Tick /\ ~UNCHANGED vars /\ ~(\E up : ChangeHubs(up))
  BY DEF check, CheckUp, CheckSingle, CheckDwell, Advance, NotedDown, Verdict, Tick, vars, ChangeHubs
<1>2. PICK s \in Names, new \in Expansions : Resolve(s, new)
  BY <1>1 DEF Next
<1>3. s \in Specs /\ addrs'[s] = new
  BY <1>2, FailoverAssumption DEF Resolve, updateResolution, Listed, Specs
<1>4. Follow(s, new)
  BY <1>2 DEF Resolve, updateResolution, Adopt, Keep
<1> QED
  BY <1>3, <1>4 DEF Follow, Withdrawn

\* The signal is raised when the advances have gone round, or the only entry has been
\* down for its dwell.
LEMMA SignalCaused ==
  Listed /\ Dwelt /\ Circled /\ [Next]_vars
    => (~exhaustedLatched /\ exhaustedLatched' /\ steady => Entries(addrs) \subseteq tried')
<1> SUFFICES ASSUME Listed, Dwelt, Circled, [Next]_vars,
                    ~exhaustedLatched, exhaustedLatched', steady, NEW e \in Entries(addrs)
             PROVE  e \in tried'
  OBVIOUS
<1> USE FailoverAssumption, NoLossIsNoAge
<1> DEFINE k == flatIndex(addrs, e)
<1>0. /\ flatLen \in Nat /\ Settle \in Nat /\ Settle > 0 /\ downAdvances \in Nat
      /\ sinceSwitch \in 0..Settle /\ downFor \in 0..Settle \cup {NoLoss}
  BY FlatLenType DEF Dwelt
<1>1. k \in 1..flatLen /\ entryAt(addrs, k) = e
  BY PlaceOfEntry DEF Listed, flatLen
<1>2. active # None
  BY DEF Listed
<1>3. idx \in 1..flatLen /\ entryAt(addrs, idx) = active
  BY <1>1, <1>2, ActivePlace
<1> HIDE DEF k
<1>4. CASE CheckSingle
  <2>1. flatLen = 1 /\ NotedDown /\ Onset >= Settle
    BY <1>4 DEF CheckSingle
  <2>2. sinceSwitch >= Settle
    BY <1>0, <2>1 DEF Onset, Circled
  <2>3. active \in tried'
    BY <2>1, <2>2 DEF NotedDown
  <2>4. k = idx
    BY <1>1, <1>3, <2>1
  <2> QED
    BY <1>1, <1>3, <2>3, <2>4
<1>5. CASE Advance
  <2>1. flatLen >= 2 /\ tried' = tried \cup {active} /\ downAdvances + 1 >= flatLen
    BY <1>5 DEF Advance, NotedDown, Wrapped
  <2>2. k = idx \/ Left(k, downAdvances)
    BY <1>0, <1>1, <1>3, <2>1 DEF Left
  <2> QED
    BY <1>1, <1>3, <2>1, <2>2 DEF Circled
<1>6. ~CheckUp /\ ~CheckDwell /\ ~Verdict /\ ~Tick /\ ~UNCHANGED vars
  BY DEF CheckUp, CheckDwell, Verdict, Tick, vars, ctrl
<1>7. ASSUME NEW up PROVE ~ChangeHubs(up)
  BY DEF ChangeHubs, ctrl
<1>8. ASSUME NEW s, NEW new PROVE ~Resolve(s, new)
  BY DEF Resolve, updateResolution
<1> QED
  BY <1>4, <1>5, <1>6, <1>7, <1>8 DEF Next, check

----------------------------------------------------------------------------
\* The failover controller, whatever it is told by a resolver, keeps its promise
\* to the exit selector: it signals once per outage, and only an outage it has
\* observed for the whole dwell (checkLocked, raiseExhaustedLocked).
THEOREM ControllerImplements == Init /\ [][Next]_vars => ControllerPromise
<1>1. Init => Dwelt
  BY InitDwelt
<1>2. Init => Controller!Init
  BY Zenon DEF Init, Controller!Init
<1> QED
  BY <1>1, <1>2, DweltStep, ControllerStep, PTL DEF ControllerPromise, Controller!Spec

\* The two loops together behave as the failover controller's specification says.
LEMMA ResolutionBehaves == ResolvedSpec => Init /\ [][Next]_vars
<1>1. ResolvedInit => ResolverSound
  BY DEF ResolvedInit, ResolverSound, Resting, Answers
<1>2. ResolvedInit => Init
  BY DEF ResolvedInit
<1> QED
  BY <1>1, <1>2, ResolverStep, ResolvedStep, PTL DEF ResolvedSpec

\* The two loops together keep both promises: what the resolver does is what the
\* failover controller's specification allows, and the controller implements
\* ExitController (resolveTarget, updateResolution, checkLocked).
THEOREM ResolutionImplements == ResolvedSpec => PromisesKept
BY ResolutionBehaves, ControllerImplements DEF PromisesKept

LEMMA InitListed == Init => Listed /\ Circled
<1> SUFFICES ASSUME Init PROVE Listed /\ Circled
  OBVIOUS
<1>1. addrs \in [Specs -> Answers] /\ active = entryAt(addrs, 1) /\ idx = flatIndex(addrs, active)
  BY DEF Init, Answers
<1>2. installed = (active # None) /\ remote = active.addr
  BY DEF Init
<1>3. Listed
  BY <1>1, <1>2, HeadFound DEF Listed
<1>4. downAdvances = 0 /\ downFor = NoLoss
  BY DEF Init
<1>5. flatLen \in Nat /\ idx \in 0..flatLen /\ (flatLen > 0 => idx >= 1)
  BY <1>3, ActivePlace
<1>6. Circled
  BY <1>4, <1>5 DEF Circled, Left
<1> QED
  BY <1>3, <1>6

\* However the specs grow and shrink under an outage, controller, status snapshot and
\* bind agree on the active endpoint (updateResolution, flatIndexLocked, check).
THEOREM ActiveEndpointAgreed == ResolvedSpec => []OneActiveEndpoint
<1>1. Listed => OneActiveEndpoint
  BY PlaceOfEntry DEF Listed, OneActiveEndpoint, flatLen
<1> QED
  BY <1>1, InitListed, ListedStep, ResolutionBehaves, PTL

\* A repoint follows hub loss, the first resolution or the withdrawal of the active
\* address, and the exhaustion signal, if the list kept still, an outage in which
\* every entry was active for its dwell and seen down (updateResolution, checkLocked).
THEOREM StepsHaveCauses == ResolvedSpec => NoStepWithoutCause
<1> DEFINE Caused ==
      /\ remote' # remote => allDown \/ active = None \/ ~Contains(addrs'[active.spec], active.addr)
      /\ ~exhaustedLatched /\ exhaustedLatched' /\ steady => Entries(addrs) \subseteq tried'
<1>1. Listed /\ Dwelt /\ Circled /\ [Next]_vars => [Caused]_vars
  BY RepointCaused, SignalCaused
<1> QED
  BY <1>1, InitListed, InitDwelt, ListedStep, DweltStep, CircledStep, ResolutionBehaves, PTL
  DEF NoStepWithoutCause
============================================================================
