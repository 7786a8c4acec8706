-------------------------- MODULE SourceDemuxProofs --------------------------
(***************************************************************************)
(* Proofs about SourceDemux, for any finite sets of peers and sources, any *)
(* number of readers, any cap and any number of bindings.                  *)
(*                                                                         *)
(* BoundHasReceiver is inductive together with the types: dropping the     *)
(* bindings last means that whatever is bound afterwards is bound by a     *)
(* reader that has its third step still before it.  CapRespected needs     *)
(* that the binding an at-quota peer gives up is really in the map.        *)
(***************************************************************************)
EXTENDS SourceDemux, FiniteSetTheorems, NaturalsInduction, WellFoundedInduction, TLAPS

\* Every non-empty set of naturals has a least element.
LEMMA LeastNatural ==
    ASSUME NEW T \in SUBSET Nat, T # {}
    PROVE  \E x \in T : \A y \in T : x <= y
<1>1. PICK x \in T : \A y \in T : ~(<<y, x>> \in OpToRel(<, Nat))
  BY WFMin, NatLessThanWellFounded, Zenon
<1>2. ASSUME NEW y \in T PROVE x <= y
  <2>1. ~(y < x)
    BY <1>1, Zenon DEF OpToRel
  <2> QED BY <2>1
<1> QED BY <1>2

\* A peer with bindings has an oldest one, and it is its own.
LEMMA OldestIsOwn ==
    ASSUME TypeOK, NEW p \in Peers, SourcesOf(p) # {}
    PROVE  /\ Oldest(p) \in Sources
           /\ owner[Oldest(p)] = p
<1> DEFINE T == {stamp[s] : s \in SourcesOf(p)}
<1>1. T \in SUBSET Nat /\ T # {}
  BY DEF TypeOK, SourcesOf
<1>2. PICK x \in T : \A y \in T : x <= y
  BY <1>1, LeastNatural
<1>3. PICK s \in SourcesOf(p) : \A t \in SourcesOf(p) : stamp[s] <= stamp[t]
  BY <1>2
<1>4. Oldest(p) \in SourcesOf(p)
  BY <1>3, Zenon DEF Oldest
<1> QED BY <1>4 DEF SourcesOf

LEMMA QuotaPositive == perPeerQuota \in Nat \ {0}
<1>1. Cardinality(Peers) \in Nat
  BY DemuxAssumption, FS_CardinalityType
<1>2. Cardinality(Peers) # 0
  BY DemuxAssumption, FS_EmptySet
<1>3. MaxDemuxSources \div Cardinality(Peers) \in Nat
  BY <1>1, <1>2, DemuxAssumption
<1> QED BY <1>3 DEF perPeerQuota

LEMMA TypeInit == Init => TypeOK
BY DemuxAssumption DEF Init, TypeOK, ReaderState, Idle, NotTearing

LEMMA TypeStep == TypeOK /\ [Next]_vars => TypeOK'
<1> SUFFICES ASSUME TypeOK, [Next]_vars PROVE TypeOK'
  OBVIOUS
<1> USE DEF TypeOK
<1>1. ASSUME NEW r \in Readers, Bind(r) PROVE TypeOK'
  <2>1. reader[r].peer \in Peers /\ reader[r].source \in Sources
    BY <1>1 DEF Bind
  <2>2. owner' \in [Sources -> Peers \cup {NoPeer}]
    BY <1>1, <2>1 DEF Bind
  <2>3. stamp' \in [Sources -> Nat] /\ bindSeq' \in Nat
    BY <1>1, <2>1 DEF Bind
  <2>4. reader'[r] = Idle \/ reader'[r] = [reader[r] EXCEPT !.step = "ensure"]
    BY <1>1 DEF Bind
  <2>5. reader'[r] \in ReaderState
    BY <2>4 DEF ReaderState, Idle
  <2>6. /\ reader' \in [Readers -> ReaderState]
        /\ \A q \in Readers : reader'[q].step # "idle" =>
             reader'[q].peer \in Peers /\ reader'[q].source \in Sources
    BY <1>1, <2>1, <2>4, <2>5 DEF Bind, ReaderState, Idle
  <2> QED BY <1>1, <2>2, <2>3, <2>6 DEF Bind
<1>2. ASSUME NEW r \in Readers, Ensure(r) PROVE TypeOK'
  BY <1>2 DEF Ensure, ReaderState, Idle
<1>3. ASSUME NEW r \in Readers, NEW p \in Peers, NEW s \in Sources, LookUp(r, p, s)
      PROVE  TypeOK'
  BY <1>3 DEF LookUp, ReaderState
<1>4. ASSUME NEW p \in Peers, TearDown(p) PROVE TypeOK'
  BY <1>4 DEF TearDown
<1>5. ASSUME NEW p \in Peers, ChangeLive(p) PROVE TypeOK'
  BY <1>5 DEF ChangeLive
<1>6. CASE Unbind
  BY <1>6, DemuxAssumption DEF Unbind, NotTearing
<1>7. CASE Close
  BY <1>7 DEF Close
<1>8. CASE Open
  BY <1>8 DEF Open
<1>9. CASE UNCHANGED vars
  BY <1>9 DEF vars
<1> QED BY <1>1, <1>2, <1>3, <1>4, <1>5, <1>6, <1>7, <1>8, <1>9 DEF Next

\* The types of the demultiplexer hold in every reachable state.
THEOREM TypeCorrect == Spec => []TypeOK
BY TypeInit, TypeStep, PTL DEF Spec

----------------------------------------------------------------------------

LEMMA ReceiverInit == Init => BoundHasReceiver
BY DEF Init, BoundHasReceiver, Bound

LEMMA ReceiverStep ==
  TypeOK /\ BoundHasReceiver /\ [Next]_vars => BoundHasReceiver'
<1> SUFFICES ASSUME TypeOK, BoundHasReceiver, [Next]_vars,
                    open', NEW s \in Sources, owner'[s] # NoPeer
             PROVE  \/ owner'[s] \in receiver'
                    \/ \E r \in Readers : /\ reader'[r].step = "ensure"
                                          /\ reader'[r].peer = owner'[s]
                    \/ tearing' = owner'[s]
  BY DEF BoundHasReceiver, Bound
<1> USE DEF TypeOK, BoundHasReceiver, Bound
<1> DEFINE Fine == \/ owner'[s] \in receiver'
                   \/ \E r \in Readers : /\ reader'[r].step = "ensure"
                                         /\ reader'[r].peer = owner'[s]
                   \/ tearing' = owner'[s]
<1>1. ASSUME NEW r \in Readers, Bind(r) PROVE Fine
  <2>1. open /\ receiver' = receiver /\ tearing' = tearing
    BY <1>1 DEF Bind
  <2>2. \A q \in Readers : reader[q].step = "ensure" => reader'[q] = reader[q]
    BY <1>1 DEF Bind
  <2>3. CASE owner'[s] = owner[s]
    BY <2>1, <2>2, <2>3
  <2>4. CASE owner'[s] # owner[s]
    <3>1. owner'[s] = reader[r].peer
      BY <1>1, <2>4 DEF Bind
    <3>2. reader'[r] = [reader[r] EXCEPT !.step = "ensure"]
      BY <1>1, <2>4 DEF Bind
    <3>3. reader'[r].step = "ensure" /\ reader'[r].peer = reader[r].peer
      BY <3>2 DEF ReaderState
    <3> QED BY <3>1, <3>3
  <2> QED BY <2>3, <2>4
<1>2. ASSUME NEW r \in Readers, Ensure(r) PROVE Fine
  <2>1. \A q \in Readers : q # r => reader'[q] = reader[q]
    BY <1>2 DEF Ensure
  <2> QED BY <1>2, <2>1 DEF Ensure
<1>3. ASSUME NEW r \in Readers, NEW p \in Peers, NEW t \in Sources, LookUp(r, p, t)
      PROVE  Fine
  <2>1. \A q \in Readers : reader[q].step = "ensure" => reader'[q] = reader[q]
    BY <1>3 DEF LookUp, Idle
  <2> QED BY <1>3, <2>1 DEF LookUp
<1>4. ASSUME NEW p \in Peers, TearDown(p) PROVE Fine
  BY <1>4, DemuxAssumption DEF TearDown, NotTearing
<1>5. ASSUME NEW p \in Peers, ChangeLive(p) PROVE Fine
  BY <1>5 DEF ChangeLive
<1>6. CASE Unbind
  BY <1>6 DEF Unbind
<1>7. CASE Close
  BY <1>7 DEF Close
<1>8. CASE Open
  BY <1>8 DEF Open
<1>9. CASE UNCHANGED vars
  BY <1>9 DEF vars
<1> QED BY <1>1, <1>2, <1>3, <1>4, <1>5, <1>6, <1>7, <1>8, <1>9 DEF Next

\* No bound source leads to a peer without a resequencer, unless the reader or
\* the teardown that is responsible for it has its next step still to take.
THEOREM RoutesLeadSomewhere == Spec => []BoundHasReceiver
BY TypeInit, TypeStep, ReceiverInit, ReceiverStep, PTL DEF Spec

----------------------------------------------------------------------------

LEMMA CapInit == Init => CapRespected
<1> SUFFICES ASSUME Init PROVE CapRespected
  OBVIOUS
<1>1. Bound = {}
  BY DEF Init, Bound
<1> QED BY <1>1, FS_EmptySet, DemuxAssumption DEF CapRespected

LEMMA CapStep == TypeOK /\ CapRespected /\ [Next]_vars => CapRespected'
<1> SUFFICES ASSUME TypeOK, CapRespected, [Next]_vars PROVE CapRespected'
  OBVIOUS
<1>0. /\ IsFiniteSet(Bound) /\ Cardinality(Bound) \in Nat
      /\ MaxDemuxSources \in Nat /\ Cardinality(Bound) <= MaxDemuxSources
  BY DemuxAssumption, FS_Subset, FS_CardinalityType DEF Bound, CapRespected
<1>1. ASSUME Bound' \subseteq Bound PROVE CapRespected'
  <2>1. Cardinality(Bound') <= Cardinality(Bound) /\ Cardinality(Bound') \in Nat
    BY <1>0, <1>1, FS_Subset, FS_CardinalityType
  <2> QED BY <1>0, <2>1 DEF CapRespected
<1>2. ASSUME NEW r \in Readers, Bind(r) PROVE CapRespected'
  <2> DEFINE p == reader[r].peer
             s == reader[r].source
  <2>1. p \in Peers /\ s \in Sources
    BY <1>2 DEF Bind, TypeOK
  <2>2. CASE owner' = owner
    BY <2>2, <1>1 DEF Bound
  <2>3. CASE owner' # owner /\ owner[s] # NoPeer
    <3>1. owner' = [t \in Sources |-> IF t = s THEN p ELSE owner[t]]
      BY <1>2, <2>3 DEF Bind
    <3> QED BY <3>1, <2>3, <1>1 DEF Bound
  <2>4. CASE owner' # owner /\ owner[s] = NoPeer
    <3>1. /\ ~Exhausted(p)
          /\ owner' = [t \in Sources |-> IF t = s THEN p
                          ELSE IF t \in Victims(p) THEN NoPeer ELSE owner[t]]
      BY <1>2, <2>4 DEF Bind
    <3>2. s \notin Bound
      BY <2>4 DEF Bound
    <3>3. CASE Cardinality(SourcesOf(p)) >= perPeerQuota
      <4>1. SourcesOf(p) # {}
        BY <3>3, QuotaPositive, FS_EmptySet
      <4>2. Oldest(p) \in Bound
        BY <2>1, <4>1, OldestIsOwn, DemuxAssumption DEF Bound
      <4>3. Bound' \subseteq (Bound \ {Oldest(p)}) \cup {s}
        BY <3>1, <3>3 DEF Victims, Bound
      <4>4. /\ IsFiniteSet(Bound \ {Oldest(p)})
            /\ Cardinality(Bound \ {Oldest(p)}) = Cardinality(Bound) - 1
        BY <1>0, <4>2, FS_RemoveElement
      <4>5. /\ IsFiniteSet((Bound \ {Oldest(p)}) \cup {s})
            /\ Cardinality((Bound \ {Oldest(p)}) \cup {s}) = Cardinality(Bound)
        <5> DEFINE B == Bound \ {Oldest(p)}
        <5>1. s \notin B /\ IsFiniteSet(B) /\ Cardinality(B) = Cardinality(Bound) - 1
          BY <3>2, <4>4
        <5> HIDE DEF B
        <5>2. IsFiniteSet(B \cup {s}) /\ Cardinality(B \cup {s}) = Cardinality(B) + 1
          BY <5>1, FS_AddElement
        <5>3. Cardinality(B \cup {s}) = Cardinality(Bound)
          BY <1>0, <5>1, <5>2
        <5> QED BY <5>2, <5>3 DEF B
      <4>6. Cardinality(Bound') <= Cardinality(Bound) /\ Cardinality(Bound') \in Nat
        BY <4>3, <4>5, FS_Subset, FS_CardinalityType
      <4> QED BY <1>0, <4>6 DEF CapRespected
    <3>4. CASE ~(Cardinality(SourcesOf(p)) >= perPeerQuota)
      <4>0. Cardinality(SourcesOf(p)) \in Nat
        BY DemuxAssumption, FS_Subset, FS_CardinalityType DEF SourcesOf
      <4>1. Cardinality(Bound) < MaxDemuxSources
        BY <1>0, <3>1, <3>4, <4>0, QuotaPositive DEF Exhausted
      <4>2. Bound' \subseteq Bound \cup {s}
        BY <3>1 DEF Bound
      <4>3. /\ IsFiniteSet(Bound \cup {s})
            /\ Cardinality(Bound \cup {s}) = Cardinality(Bound) + 1
        BY <1>0, <3>2, FS_AddElement
      <4>4. /\ Cardinality(Bound') <= Cardinality(Bound \cup {s})
            /\ Cardinality(Bound') \in Nat
        BY <4>2, <4>3, FS_Subset, FS_CardinalityType
      <4> QED BY <1>0, <4>1, <4>3, <4>4 DEF CapRespected
    <3> QED BY <3>3, <3>4
  <2> QED BY <2>2, <2>3, <2>4
<1>3. CASE Unbind
  <2>1. Bound' \subseteq Bound
    BY <1>3 DEF Unbind, Bound
  <2> QED BY <2>1, <1>1
<1>4. CASE owner' = owner
  BY <1>4, <1>1 DEF Bound
<1> QED BY <1>2, <1>3, <1>4
        DEF Next, vars, Ensure, LookUp, TearDown, ChangeLive, Close, Open

\* The demux map never exceeds its cap, for any quota, with any churn.
THEOREM MapBounded == Spec => []CapRespected
BY TypeInit, TypeStep, CapInit, CapStep, PTL DEF Spec

----------------------------------------------------------------------------

LEMMA IsolationStep ==
  TypeOK /\ [Next]_vars =>
    (\A s \in Bound : owner'[s] # owner[s] =>
       \/ tearing = owner[s]
       \/ owner'[s] # NoPeer
       \/ /\ s = Oldest(owner[s])
          /\ \E t \in Sources : owner[t] # owner[s] /\ owner'[t] = owner[s])
<1> SUFFICES ASSUME TypeOK, [Next]_vars,
                    NEW s \in Sources, owner[s] # NoPeer, owner'[s] = NoPeer
             PROVE  \/ tearing = owner[s]
                    \/ /\ s = Oldest(owner[s])
                       /\ \E t \in Sources : owner[t] # owner[s] /\ owner'[t] = owner[s]
  BY DEF Bound
<1>1. ASSUME NEW r \in Readers, Bind(r)
      PROVE  /\ s = Oldest(owner[s])
             /\ \E t \in Sources : owner[t] # owner[s] /\ owner'[t] = owner[s]
  <2> DEFINE p == reader[r].peer
             v == reader[r].source
  <2>1. p \in Peers /\ v \in Sources /\ p # NoPeer
    BY <1>1, DemuxAssumption DEF Bind, TypeOK
  <2>2. /\ owner[v] = NoPeer
        /\ owner' = [t \in Sources |-> IF t = v THEN p
                       ELSE IF t \in Victims(p) THEN NoPeer ELSE owner[t]]
        /\ s # v /\ s \in Victims(p)
    BY <1>1, <2>1 DEF Bind
  <2>3. s = Oldest(p) /\ SourcesOf(p) # {}
    BY <2>2, QuotaPositive, FS_EmptySet DEF Victims
  <2>4. owner[s] = p
    BY <2>1, <2>3, OldestIsOwn
  <2> QED BY <2>1, <2>2, <2>3, <2>4
<1>2. CASE Unbind
  BY <1>2 DEF Unbind
<1> QED BY <1>1, <1>2
        DEF Next, vars, Ensure, LookUp, TearDown, ChangeLive, Close, Open

\* No peer's churn, quota or teardown takes a binding from another peer.
THEOREM PeersIsolated == Spec => Isolation
<1>1. TypeOK /\ [Next]_vars =>
        [\A s \in Bound : owner'[s] # owner[s] =>
           \/ tearing = owner[s]
           \/ owner'[s] # NoPeer
           \/ /\ s = Oldest(owner[s])
              /\ \E t \in Sources : owner[t] # owner[s] /\ owner'[t] = owner[s]]_vars
  BY IsolationStep
<1> QED BY <1>1, TypeCorrect, PTL DEF Spec, Isolation
==============================================================================
