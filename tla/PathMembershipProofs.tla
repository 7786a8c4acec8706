----------------------- MODULE PathMembershipProofs -----------------------
(***************************************************************************)
(* Proofs about PathMembership, for any paths, peers, reloads, faults and  *)
(* openings: the membership is whole, an id is never minted twice, and     *)
(* nothing is left on a retired socket.                                    *)
(***************************************************************************)
EXTENDS PathMembership, SequenceTheorems, WellFoundedInduction, TLAPS

----------------------------------------------------------------------------
(* Lemmas on sequences and naturals.                                       *)

\* A sequence is one over its own elements.
LEMMA OwnElements ==
  ASSUME NEW S, NEW s \in Seq(S)
  PROVE  s \in Seq(ToSet(s))
<1>1. Len(s) \in Nat /\ DOMAIN s = 1..Len(s) /\ s \in [1..Len(s) -> S]
  BY LenProperties
<1>2. s \in [1..Len(s) -> ToSet(s)]
  BY <1>1 DEF ToSet
<1> QED
  BY <1>1, <1>2, SeqDef

\* What Append does to a sequence and to the set of its elements.
LEMMA AppendTo ==
  ASSUME NEW S, NEW s \in Seq(S), NEW x \in S
  PROVE  /\ Append(s, x) \in Seq(S) /\ Len(Append(s, x)) = Len(s) + 1
         /\ ToSet(Append(s, x)) = ToSet(s) \cup {x}
         /\ IsInjective(s) /\ x \notin ToSet(s) => IsInjective(Append(s, x))
<1>1. /\ Append(s, x) \in Seq(S) /\ Len(Append(s, x)) = Len(s) + 1
      /\ \A i \in 1..Len(s) : Append(s, x)[i] = s[i]
      /\ Append(s, x)[Len(s) + 1] = x
  BY AppendProperties
<1>2. /\ Len(s) \in Nat /\ DOMAIN s = 1..Len(s)
      /\ DOMAIN Append(s, x) = 1..(Len(s) + 1)
  BY <1>1, LenProperties
<1>3. ToSet(Append(s, x)) = ToSet(s) \cup {x}
  BY <1>1, <1>2 DEF ToSet
<1>4. IsInjective(s) /\ x \notin ToSet(s) => IsInjective(Append(s, x))
  BY <1>1, <1>2 DEF ToSet, IsInjective
<1> QED
  BY <1>1, <1>3, <1>4

\* What the splice of removeDurableLocked does, wherever it cuts.
LEMMA SpliceType ==
  ASSUME NEW S, NEW s \in Seq(S), s # <<>>, NEW i
  PROVE  splice(s, i) \in Seq(S) /\ Len(splice(s, i)) = Len(s) - 1
<1>1. Len(s) \in Nat \ {0} /\ s \in [1..Len(s) -> S]
  BY LenProperties, EmptySeq
<1>2. ASSUME NEW j \in 1..(Len(s) - 1) PROVE s[IF j < i THEN j ELSE j + 1] \in S
  <2>1. j \in 1..Len(s) /\ j + 1 \in 1..Len(s)
    BY <1>1
  <2>2. s[j] \in S /\ s[j + 1] \in S
    BY <1>1, <2>1
  <2>3. CASE j < i
    BY <2>2, <2>3
  <2>4. CASE ~(j < i)
    BY <2>2, <2>4
  <2> QED
    BY <2>3, <2>4
<1>3. Len(s) - 1 \in Nat
  BY <1>1
<1>4. splice(s, i) \in [1..(Len(s) - 1) -> S]
  BY <1>2 DEF splice
<1>5. splice(s, i) \in Seq(S)
  BY <1>3, <1>4, SeqDef
<1>6. DOMAIN splice(s, i) = 1..(Len(s) - 1) /\ DOMAIN splice(s, i) = 1..Len(splice(s, i))
  BY <1>4, <1>5, LenProperties
<1>7. Len(splice(s, i)) \in Nat
  BY <1>5, LenProperties
<1> QED
  BY <1>3, <1>5, <1>6, <1>7

\* Cut at its place, exactly that element is gone.
LEMMA SpliceElements ==
  ASSUME NEW S, NEW s \in Seq(S), IsInjective(s), NEW i \in DOMAIN s
  PROVE  ToSet(splice(s, i)) = ToSet(s) \ {s[i]} /\ IsInjective(splice(s, i))
<1> DEFINE t == splice(s, i)
<1>1. /\ Len(s) \in Nat \ {0} /\ DOMAIN s = 1..Len(s) /\ i \in 1..Len(s)
      /\ DOMAIN t = 1..(Len(s) - 1)
  BY LenProperties DEF splice
<1>2. ASSUME NEW j \in DOMAIN t
      PROVE  /\ t[j] = s[IF j < i THEN j ELSE j + 1]
             /\ (IF j < i THEN j ELSE j + 1) \in DOMAIN s \ {i}
  BY <1>1 DEF splice
<1>3. ASSUME NEW k \in DOMAIN s \ {i}
      PROVE  \E j \in DOMAIN t : (IF j < i THEN j ELSE j + 1) = k
  <2>1. CASE k < i
    BY <1>1, <2>1
  <2>2. CASE k > i
    <3>1. k - 1 \in DOMAIN t /\ ~(k - 1 < i) /\ (k - 1) + 1 = k
      BY <1>1, <2>2
    <3> QED
      BY <3>1
  <2> QED
    BY <1>1, <2>1, <2>2
<1> HIDE DEF t
<1>4. ToSet(t) \subseteq ToSet(s) \ {s[i]}
  BY <1>2 DEF ToSet, IsInjective
<1>5. ToSet(s) \ {s[i]} \subseteq ToSet(t)
  <2> SUFFICES ASSUME NEW k \in DOMAIN s, s[k] # s[i] PROVE s[k] \in ToSet(t)
    BY DEF ToSet
  <2>1. PICK j \in DOMAIN t : (IF j < i THEN j ELSE j + 1) = k
    BY <1>3
  <2> QED
    BY <1>2, <2>1 DEF ToSet
<1>6. ASSUME NEW j \in DOMAIN t, NEW k \in DOMAIN t, t[j] = t[k] PROVE j = k
  <2>1. (IF j < i THEN j ELSE j + 1) = (IF k < i THEN k ELSE k + 1)
    BY <1>2, <1>6 DEF IsInjective
  <2> QED
    BY <1>1, <2>1
<1> QED
  BY <1>4, <1>5, <1>6 DEF t, IsInjective

\* A non-empty set of naturals has a least element.
LEMMA LeastOf ==
  ASSUME NEW T \in SUBSET Nat, T # {}
  PROVE  \E x \in T : \A y \in T : x <= y
<1>1. PICK x \in T : \A y \in T : ~(<<y, x>> \in OpToRel(<, Nat))
  BY WFMin, NatLessThanWellFounded, Zenon
<1>2. ASSUME NEW y \in T PROVE x <= y
  <2>1. ~(y < x)
    BY <1>1, Zenon DEF OpToRel
  <2> QED
    BY <2>1
<1> QED
  BY <1>2

----------------------------------------------------------------------------
(* The durable membership.                                                 *)

IDs == 0..MaxPathID

\* m.defs has no name twice, and every peer has the same probers, one for each.
Durable ==
  /\ defs \in Seq(ToSet(defs)) /\ IsInjective(defs)
  /\ \A p \in Peers : probers[p] \in Seq(IDs) /\ Len(probers[p]) = Len(defs)
  /\ \A p, q \in Peers : probers[p] = probers[q]
  /\ nextPathID \in 0..(MaxPathID + 1)

\* The place of a name that is configured.
LEMMA IndexOf ==
  ASSUME NEW s, NEW name \in ToSet(s)
  PROVE  Index(s, name) \in DOMAIN s /\ s[Index(s, name)] = name
BY DEF Index, ToSet

\* AddPath leaves one prober of the new id with every peer.
LEMMA AddPathDurable ==
  ASSUME Durable, NEW name, AddPath(name)
  PROVE  Durable' /\ ToSet(defs') = ToSet(defs) \cup {name}
<1> DEFINE S == ToSet(defs) \cup {name}
<1>0. MaxPathID \in Nat
  BY MembershipAssumption
<1>1. /\ name \notin ToSet(defs) /\ nextPathID <= MaxPathID /\ nextPathID' = nextPathID + 1
      /\ defs' = Append(defs, name) /\ probers' = mint(nextPathID)
  BY DEF AddPath
<1>2. defs \in Seq(S) /\ name \in S
  BY SeqMonotonic DEF Durable
<1> HIDE DEF S
<1>3. /\ defs' \in Seq(S) /\ Len(defs') = Len(defs) + 1
      /\ ToSet(defs') = ToSet(defs) \cup {name} /\ IsInjective(defs')
  BY <1>1, <1>2, AppendTo DEF Durable
<1>4. defs' \in Seq(ToSet(defs'))
  BY <1>3, OwnElements
<1>5. nextPathID \in IDs /\ nextPathID' \in 0..(MaxPathID + 1)
  BY <1>0, <1>1 DEF Durable, IDs
<1>6. ASSUME NEW p \in Peers
      PROVE  /\ probers'[p] = Append(probers[p], nextPathID)
             /\ probers'[p] \in Seq(IDs) /\ Len(probers'[p]) = Len(defs')
  <2>1. probers'[p] = Append(probers[p], nextPathID)
    BY <1>1 DEF mint
  <2>2. probers'[p] \in Seq(IDs) /\ Len(probers'[p]) = Len(probers[p]) + 1
    BY <1>5, <2>1, AppendTo DEF Durable
  <2> QED
    BY <1>3, <2>1, <2>2 DEF Durable
<1>7. ASSUME NEW p \in Peers, NEW q \in Peers PROVE probers'[p] = probers'[q]
  BY <1>6 DEF Durable
<1> QED
  BY <1>3, <1>4, <1>5, <1>6, <1>7 DEF Durable

\* RemovePath drops the def and every peer's prober of it.
LEMMA RemovePathDurable ==
  ASSUME Durable, NEW name, RemovePath(name)
  PROVE  Durable' /\ ToSet(defs') = ToSet(defs) \ {name}
<1> DEFINE i == Index(defs, name)
<1>1. /\ name \in ToSet(defs) /\ defs' = splice(defs, i)
      /\ probers' = [p \in Peers |-> splice(probers[p], i)]
      /\ UNCHANGED nextPathID
  BY DEF RemovePath
<1>2. i \in DOMAIN defs /\ defs[i] = name
  BY <1>1, IndexOf
<1> HIDE DEF i
<1>3. Len(defs) \in Nat \ {0} /\ defs # <<>>
  BY <1>2, LenProperties, EmptySeq DEF Durable
<1>4. defs' \in Seq(ToSet(defs)) /\ Len(defs') = Len(defs) - 1
  BY <1>1, <1>3, SpliceType DEF Durable
<1>5. ToSet(defs') = ToSet(defs) \ {name} /\ IsInjective(defs')
  BY <1>1, <1>2, SpliceElements DEF Durable
<1>6. defs' \in Seq(ToSet(defs'))
  BY <1>4, OwnElements
<1>7. ASSUME NEW p \in Peers
      PROVE  /\ probers'[p] = splice(probers[p], i)
             /\ probers'[p] \in Seq(IDs) /\ Len(probers'[p]) = Len(defs')
  <2>1. probers'[p] = splice(probers[p], i)
    BY <1>1
  <2>2. probers[p] \in Seq(IDs) /\ probers[p] # <<>>
    BY <1>3, EmptySeq DEF Durable
  <2>3. probers'[p] \in Seq(IDs) /\ Len(probers'[p]) = Len(probers[p]) - 1
    BY <2>1, <2>2, SpliceType
  <2> QED
    BY <1>4, <2>1, <2>3 DEF Durable
<1>8. ASSUME NEW p \in Peers, NEW q \in Peers PROVE probers'[p] = probers'[q]
  BY <1>7 DEF Durable
<1> QED
  BY <1>1, <1>5, <1>6, <1>7, <1>8 DEF Durable

\* Open finds its next id: the least one above every stamp and not below the last.
LEMMA OpenMintsAbove ==
  ASSUME Durable, Open
  PROVE  /\ nextPathID' \in nextPathID..(MaxPathID + 1)
         /\ shared' # {} => \A id \in stamps : nextPathID' > id
<1> DEFINE Fits(n) == n >= nextPathID /\ \A id \in stamps : n > id
           T == {n \in 0..(MaxPathID + 1) : Fits(n)}
           Right(n) == Fits(n) /\ (n = nextPathID \/ n - 1 \in stamps)
<1>0. MaxPathID \in Nat /\ nextPathID \in 0..(MaxPathID + 1)
  BY MembershipAssumption DEF Durable
<1>1. \A id \in stamps : id \in IDs
  <2> SUFFICES ASSUME NEW p \in Peers, NEW k \in DOMAIN probers[p] PROVE probers[p][k] \in IDs
    BY DEF stamps, ToSet
  <2> QED
    BY LenProperties, ElementOfSeq DEF Durable
<1>2. MaxPathID + 1 \in T
  BY <1>0, <1>1 DEF IDs
<1>3. T \in SUBSET Nat
  BY <1>0
<1>4. PICK n \in T : \A m \in T : n <= m
  BY <1>2, <1>3, LeastOf
<1>5. n \in 0..(MaxPathID + 1) /\ Fits(n)
  BY <1>4
<1>6. n = nextPathID \/ n - 1 \in stamps
  <2> SUFFICES ASSUME n # nextPathID, n - 1 \notin stamps PROVE FALSE
    OBVIOUS
  <2>1. n - 1 \in 0..(MaxPathID + 1) /\ n - 1 >= nextPathID
    BY <1>0, <1>5
  <2>2. ASSUME NEW id \in stamps PROVE n - 1 > id
    <3>1. n > id /\ id # n - 1 /\ id \in Nat
      BY <1>0, <1>1, <1>5 DEF IDs
    <3> QED
      BY <1>5, <3>1, <1>0
  <2>3. n - 1 \in T
    BY <2>1, <2>2
  <2> QED
    BY <1>0, <1>4, <1>5, <2>3
<1>7. \E k \in 0..(MaxPathID + 1) : Right(k)
  BY <1>5, <1>6
<1>8. CASE shared' = {}
  BY <1>0, <1>8 DEF Open
<1>9. CASE shared' # {}
  <2>1. nextPathID' = CHOOSE k \in 0..(MaxPathID + 1) : Right(k)
    BY <1>9 DEF Open
  <2>2. nextPathID' \in 0..(MaxPathID + 1) /\ Right(nextPathID')
    BY <1>7, <2>1
  <2> QED
    BY <1>0, <2>2
<1> QED
  BY <1>8, <1>9

\* Only a reload changes the durable membership, and Open the next id.
LEMMA DurableElsewhere ==
  ASSUME [Next]_vars,
         \A name : ~AddPath(name) /\ ~RemovePath(name)
  PROVE  /\ UNCHANGED <<defs, probers, admitted>>
         /\ UNCHANGED nextPathID \/ Open
<1>1. CASE OpenFails \/ Close \/ reconcileDeferred \/ promoteFails \/ Write \/ Move
  BY <1>1 DEF OpenFails, Close, reconcileDeferred, promoteFails, Write, Move, durable
<1>2. CASE Retire
  BY <1>2 DEF Retire, forgetSocket, closeSocket, waitWrites, waitReaders, durable
<1>3. CASE ReloadStep
  BY <1>3 DEF ReloadStep, ReloadAdd, ReloadRemove, ReloadDone, AddFails, RemoveFails, durable
<1>4. CASE Handle
  BY <1>4 DEF Handle, learn, durable
<1>5. CASE Open
  BY <1>5 DEF Open
<1>6. ASSUME NEW d, Reload(d) PROVE UNCHANGED durable
  BY <1>6 DEF Reload
<1>7. ASSUME NEW s, readLoop(s) PROVE UNCHANGED durable
  BY <1>7 DEF readLoop
<1>8. ASSUME NEW by, Plan(by) PROVE UNCHANGED durable
  BY <1>8 DEF Plan
<1>9. CASE UNCHANGED vars
  BY <1>9 DEF vars, durable
<1> QED
  BY <1>1, <1>2, <1>3, <1>4, <1>5, <1>6, <1>7, <1>8, <1>9 DEF Next, durable

\* Every step keeps the durable membership aligned.
LEMMA DurableStep == Durable /\ [Next]_vars => Durable'
<1> SUFFICES ASSUME Durable, [Next]_vars PROVE Durable'
  OBVIOUS
<1>1. CASE \E name : AddPath(name)
  BY <1>1, AddPathDurable
<1>2. CASE \E name : RemovePath(name)
  BY <1>2, RemovePathDurable
<1>3. CASE \A name : ~AddPath(name) /\ ~RemovePath(name)
  <2>1. UNCHANGED <<defs, probers>> /\ (UNCHANGED nextPathID \/ Open)
    BY <1>3, DurableElsewhere
  <2>2. nextPathID' \in 0..(MaxPathID + 1)
    <3>1. CASE UNCHANGED nextPathID
      BY <3>1 DEF Durable
    <3>2. CASE Open
      <4>1. nextPathID' \in nextPathID..(MaxPathID + 1)
        BY <3>2, OpenMintsAbove
      <4> QED
        BY <4>1, MembershipAssumption DEF Durable
    <3> QED
      BY <2>1, <3>1, <3>2
  <2> QED
    BY <2>1, <2>2 DEF Durable
<1> QED
  BY <1>1, <1>2, <1>3

\* NewMultipath starts aligned.
LEMMA DurableInit == Init => Durable
<1> SUFFICES ASSUME Init PROVE Durable
  OBVIOUS
<1>1. /\ Boot \in Seq(Paths) /\ IsInjective(Boot) /\ MaxPathID \in Nat
      /\ Len(Boot) <= MaxPathID + 1
  BY MembershipAssumption
<1>2. Len(Boot) \in Nat /\ DOMAIN Boot = 1..Len(Boot)
  BY <1>1, LenProperties
<1>3. defs = Boot /\ nextPathID = 0
  BY DEF Init
<1>4. defs \in Seq(ToSet(defs))
  BY <1>1, <1>3, OwnElements
<1>5. ASSUME NEW p \in Peers
      PROVE  /\ probers[p] = [i \in 1..Len(Boot) |-> i - 1]
             /\ probers[p] \in Seq(IDs) /\ Len(probers[p]) = Len(defs)
  <2>1. probers[p] = [i \in 1..Len(Boot) |-> i - 1]
    BY <1>2 DEF Init
  <2>2. probers[p] \in [1..Len(Boot) -> IDs]
    BY <1>1, <1>2, <2>1 DEF IDs
  <2>3. probers[p] \in Seq(IDs)
    BY <1>2, <2>2, SeqDef
  <2>4. Len(probers[p]) \in Nat /\ 1..Len(probers[p]) = 1..Len(Boot)
    BY <2>2, <2>3, LenProperties
  <2> QED
    BY <1>2, <1>3, <2>1, <2>3, <2>4
<1>6. \A p, q \in Peers : probers[p] = probers[q]
  BY <1>5
<1>7. nextPathID \in 0..(MaxPathID + 1)
  BY <1>1, <1>3
<1>8. IsInjective(defs)
  BY <1>1, <1>3
<1> QED
  BY <1>4, <1>5, <1>6, <1>7, <1>8 DEF Durable

----------------------------------------------------------------------------
(* Ids.                                                                    *)

\* Once the bind has been open, every id that was ever minted is below the next
\* one; before, the ids are those the configured paths' probers stamp.
Minted ==
  /\ \A a \in admitted : a.id \in Nat
  /\ IdsNeverReused
  /\ \/ \A a \in admitted : a.id < nextPathID
     \/ ~IsOpen /\ \A a \in admitted : a.id \in stamps

\* Nothing but Open opens a bind that is not.
LEMMA OnlyOpenOpens ==
  ASSUME [Next]_vars, ~IsOpen, ~Open
  PROVE  ~IsOpen'
<1> USE DEF IsOpen
<1>1. CASE OpenFails \/ Close \/ reconcileDeferred \/ promoteFails \/ Write \/ Move
  BY <1>1 DEF OpenFails, Close, reconcileDeferred, promoteFails, Write, Move, bound
<1>2. CASE Retire
  BY <1>2 DEF Retire, forgetSocket, closeSocket, waitWrites, waitReaders, bound
<1>3. CASE ReloadStep
  BY <1>3 DEF ReloadStep, ReloadAdd, ReloadRemove, ReloadDone, AddPath, RemovePath,
              AddFails, RemoveFails, bound
<1>4. CASE Handle
  BY <1>4 DEF Handle, learn, bound
<1>5. ASSUME NEW d, Reload(d) PROVE UNCHANGED bound
  BY <1>5 DEF Reload
<1>6. ASSUME NEW s, readLoop(s) PROVE UNCHANGED bound
  BY <1>6 DEF readLoop
<1>7. ASSUME NEW by, Plan(by) PROVE UNCHANGED bound
  BY <1>7 DEF Plan
<1>8. CASE UNCHANGED vars
  BY <1>8 DEF vars, bound
<1> QED
  BY <1>1, <1>2, <1>3, <1>4, <1>5, <1>6, <1>7, <1>8 DEF Next, bound

\* Every step keeps the ids apart.
LEMMA MintedStep == Durable /\ Minted /\ [Next]_vars => Minted'
<1> SUFFICES ASSUME Durable, Minted, [Next]_vars PROVE Minted'
  OBVIOUS
<1> USE DEF Minted, IdsNeverReused
<1>0. nextPathID \in Nat
  BY MembershipAssumption DEF Durable
<1>1. ASSUME NEW name, AddPath(name) PROVE Minted'
  <2>1. /\ IsOpen /\ nextPathID' = nextPathID + 1
        /\ admitted' = admitted \cup {[name |-> name, id |-> nextPathID, nth |-> Cardinality(admitted)]}
    BY <1>1 DEF AddPath
  <2>2. \A a \in admitted : a.id < nextPathID
    BY <2>1
  <2>3. ASSUME NEW a \in admitted'
        PROVE  a.id \in Nat /\ a.id < nextPathID' /\ (a \in admitted \/ a.id = nextPathID)
    BY <1>0, <2>1, <2>2, <2>3
  <2>4. ASSUME NEW a \in admitted', NEW b \in admitted', a.id = b.id PROVE a = b
    BY <1>0, <2>1, <2>2, <2>4
  <2> QED
    BY <2>3, <2>4
<1>2. ASSUME NEW name, RemovePath(name) PROVE Minted'
  <2>1. IsOpen /\ UNCHANGED <<nextPathID, admitted>>
    BY <1>2 DEF RemovePath
  <2> QED
    BY <2>1
<1>3. CASE \A name : ~AddPath(name) /\ ~RemovePath(name)
  <2>1. UNCHANGED <<defs, probers, admitted>> /\ (UNCHANGED nextPathID \/ Open)
    BY <1>3, DurableElsewhere
  <2>2. stamps' = stamps
    BY <2>1 DEF stamps
  <2>3. CASE ~Open
    <3>1. UNCHANGED nextPathID /\ (~IsOpen => ~IsOpen')
      BY <2>1, <2>3, OnlyOpenOpens
    <3> QED
      BY <2>1, <2>2, <3>1
  <2>4. CASE Open
    <3>1. /\ nextPathID' \in Nat /\ nextPathID' >= nextPathID
          /\ shared' # {} => \A id \in stamps : nextPathID' > id
      BY <1>0, <2>4, OpenMintsAbove, MembershipAssumption
    <3>2. CASE \A a \in admitted : a.id < nextPathID
      <4>1. \A a \in admitted : a.id < nextPathID'
        BY <1>0, <3>1, <3>2
      <4> QED
        BY <2>1, <4>1
    <3>3. CASE \A a \in admitted : a.id \in stamps
      <4>1. CASE shared' = {}
        BY <2>1, <2>2, <3>3, <4>1 DEF IsOpen
      <4>2. CASE shared' # {}
        <5>1. \A a \in admitted : a.id < nextPathID'
          BY <3>1, <3>3, <4>2
        <5> QED
          BY <2>1, <5>1
      <4> QED
        BY <4>1, <4>2
    <3> QED
      BY <3>2, <3>3
  <2> QED
    BY <2>3, <2>4
<1> QED
  BY <1>1, <1>2, <1>3

\* An id is never minted twice in the life of the process, through removals,
\* reopens and paths that were never bound (nextPathID).
THEOREM IdsDistinct == Spec => []IdsNeverReused
<1>1. Init => Minted
  <2> SUFFICES ASSUME Init PROVE Minted
    OBVIOUS
  <2>1. /\ DOMAIN Boot = 1..Len(Boot) /\ Len(Boot) \in Nat
        /\ admitted = {[name |-> Boot[i], id |-> i - 1, nth |-> i - 1] : i \in DOMAIN Boot}
        /\ shared = {} /\ probers = [p \in Peers |-> [i \in DOMAIN Boot |-> i - 1]]
    BY MembershipAssumption, LenProperties DEF Init
  <2>2. PICK p \in Peers : TRUE
    BY MembershipAssumption
  <2>3. ASSUME NEW i \in DOMAIN Boot PROVE i - 1 \in stamps
    BY <2>1, <2>2 DEF stamps, ToSet
  <2>4. \A a \in admitted : a.id \in Nat /\ a.id \in stamps
    BY <2>1, <2>3
  <2>5. IdsNeverReused
    BY <2>1 DEF IdsNeverReused
  <2> QED
    BY <2>1, <2>4, <2>5 DEF Minted, IsOpen
<1>2. Minted => IdsNeverReused
  BY DEF Minted
<1> QED
  BY <1>1, <1>2, DurableInit, DurableStep, MintedStep, PTL DEF Spec

----------------------------------------------------------------------------
(* Sockets and views.                                                      *)

\* Every configured path of an open bind is bound or deferred, and every peer has
\* its view of every socket; a closed bind has neither.
Bound ==
  /\ DOMAIN paths = Peers /\ \A p \in Peers : paths[p] = shared
  /\ IsOpen => /\ Names(shared) \cup deferred = ToSet(defs)
               /\ Names(shared) \cap deferred = {}
               /\ \A s, t \in shared : s.name = t.name => s = t

\* Sockets that are attached together have the names they are for.
LEMMA PromotedNames ==
  ASSUME NEW names
  PROVE  /\ Names(Promoted(names)) = names
         /\ \A s, t \in Promoted(names) : s.name = t.name => s = t
<1>1. \A n \in names : Socket(n, Stamp(n)).name = n
  BY DEF Socket
<1>2. Promoted(names) = {Socket(n, Stamp(n)) : n \in names}
  BY DEF Promoted
<1>3. Names(Promoted(names)) = names
  BY <1>1, <1>2 DEF Names
<1>4. ASSUME NEW s \in Promoted(names), NEW t \in Promoted(names), s.name = t.name PROVE s = t
  BY <1>1, <1>2, <1>4
<1> QED
  BY <1>3, <1>4

\* A failed fan-out leaves every view as it was.
LEMMA RollbackUndoes ==
  ASSUME Bound, NEW done, NEW s, s.name \notin Names(shared), NEW p \in Peers
  PROVE  rollback(done, s)[p] = paths[p]
BY DEF Bound, rollback, detach, Names

\* Binding some of the deferred paths.
LEMMA PromoteBound ==
  ASSUME Bound, IsOpen, NEW names \in SUBSET deferred, UNCHANGED defs,
         shared' = shared \cup Promoted(names),
         DOMAIN paths' = Peers, \A p \in Peers : paths'[p] = paths[p] \cup Promoted(names),
         deferred' = deferred \ names
  PROVE  Bound'
<1>1. Names(shared') = Names(shared) \cup names
  BY PromotedNames DEF Names
<1>2. \A s, t \in shared' : s.name = t.name => s = t
  <2> SUFFICES ASSUME NEW s \in shared', NEW t \in shared', s.name = t.name PROVE s = t
    OBVIOUS
  <2>1. CASE s \in shared /\ t \in shared
    BY <2>1 DEF Bound
  <2>2. CASE s \in Promoted(names) /\ t \in Promoted(names)
    BY <2>2, PromotedNames
  <2>3. \A u \in Promoted(names) : u.name \in names
    BY PromotedNames DEF Names
  <2>4. \A u \in shared : u.name \notin names
    BY DEF Bound, Names
  <2> QED
    BY <2>1, <2>2, <2>3, <2>4
<1>3. IsOpen'
  BY DEF IsOpen
<1>4. ToSet(defs') = ToSet(defs)
  OBVIOUS
<1>5. /\ Names(shared') \cup deferred' = ToSet(defs')
      /\ Names(shared') \cap deferred' = {}
  BY <1>1, <1>4 DEF Bound
<1>6. \A p \in Peers : paths'[p] = shared'
  BY DEF Bound
<1> QED
  BY <1>2, <1>5, <1>6 DEF Bound

\* Every step keeps bound, deferred and configured paths together.
LEMMA BoundStep == Durable /\ Bound /\ [Next]_vars => Bound'
<1> SUFFICES ASSUME Durable, Bound, [Next]_vars PROVE Bound'
  OBVIOUS
<1>1. CASE UNCHANGED <<defs, shared, paths, deferred>>
  BY <1>1 DEF Bound, IsOpen, Names
<1>2. CASE Open
  <2> DEFINE sockets == Promoted(ToSet(defs) \cap assignable)
  <2>1. /\ shared = {} /\ UNCHANGED defs /\ shared' = sockets
        /\ paths' = [p \in Peers |-> paths[p] \cup sockets]
        /\ deferred' = IF shared' = {} THEN {} ELSE ToSet(defs) \ assignable
    BY <1>2 DEF Open, IsOpen, attach, Promoted
  <2>2. \A p \in Peers : paths'[p] = shared'
    BY <2>1 DEF Bound
  <2>3. Names(shared') = ToSet(defs) \cap assignable
    BY <2>1, PromotedNames
  <2>4. \A s, t \in shared' : s.name = t.name => s = t
    BY <2>1, PromotedNames
  <2> QED
    BY <2>1, <2>2, <2>3, <2>4 DEF Bound, IsOpen
<1>3. CASE Close
  <2>1. shared' = {} /\ paths' = [p \in Peers |-> {}]
    BY <1>3 DEF Close
  <2> QED
    BY <2>1 DEF Bound, IsOpen
<1>4. CASE reconcileDeferred
  <2>1. /\ IsOpen /\ UNCHANGED defs /\ shared' = shared \cup Promoted(promotable)
        /\ paths' = [p \in Peers |-> paths[p] \cup Promoted(promotable)]
        /\ deferred' = deferred \ promotable /\ promotable \in SUBSET deferred
    BY <1>4 DEF reconcileDeferred, attach, durable, promotable
  <2> HIDE DEF promotable
  <2> QED
    BY <2>1, PromoteBound
<1>5. CASE promoteFails
  <2>1. PICK n \in promotable, done \in Partial :
          /\ shared' = shared \cup Promoted(promotable \ {n})
          /\ paths' = [q \in Peers |-> rollback(done, Socket(n, Stamp(n)))[q]
                                          \cup Promoted(promotable \ {n})]
          /\ deferred' = deferred \ (promotable \ {n})
    BY <1>5 DEF promoteFails
  <2>2. IsOpen /\ UNCHANGED defs
    BY <1>5 DEF promoteFails, durable
  <2>3. n \in deferred /\ promotable \ {n} \in SUBSET deferred
    BY DEF promotable
  <2>4. Socket(n, Stamp(n)).name \notin Names(shared)
    BY <2>2, <2>3 DEF Bound, Socket
  <2>5. \A q \in Peers : paths'[q] = paths[q] \cup Promoted(promotable \ {n})
    BY <2>1, <2>4, RollbackUndoes
  <2>6. DOMAIN paths' = Peers
    BY <2>1
  <2> QED
    BY <2>1, <2>2, <2>3, <2>5, <2>6, PromoteBound
<1>6. ASSUME NEW name, AddPath(name), UNCHANGED generation PROVE Bound'
  <2> DEFINE s == Socket(name, nextPathID)
  <2>1. IsOpen /\ name \notin ToSet(defs)
    BY <1>6 DEF AddPath
  <2>2. ToSet(defs') = ToSet(defs) \cup {name}
    BY <1>6, AddPathDurable
  <2>3. CASE name \in assignable
    <3>1. shared' = shared \cup {s} /\ paths' = [p \in Peers |-> paths[p] \cup {s}] /\ UNCHANGED deferred
      BY <1>6, <2>3 DEF AddPath, attach
    <3>2. s.name = name
      BY DEF Socket
    <3> HIDE DEF s
    <3>3. Names(shared') = Names(shared) \cup {name}
      BY <3>1, <3>2 DEF Names
    <3>4. name \notin Names(shared) /\ name \notin deferred
      BY <2>1 DEF Bound
    <3>5. \A u \in shared : u.name # name
      BY <3>4 DEF Names
    <3>6. \A u, t \in shared' : u.name = t.name => u = t
      BY <2>1, <3>1, <3>2, <3>5 DEF Bound
    <3>7. DOMAIN paths' = Peers /\ \A p \in Peers : paths'[p] = shared'
      BY <3>1 DEF Bound
    <3>8. Names(shared') \cup deferred' = ToSet(defs') /\ Names(shared') \cap deferred' = {}
      BY <2>1, <2>2, <3>1, <3>3, <3>4 DEF Bound
    <3> QED
      BY <3>6, <3>7, <3>8 DEF Bound
  <2>4. CASE name \notin assignable
    <3>1. deferred' = deferred \cup {name} /\ UNCHANGED <<shared, paths>>
      BY <1>6, <2>4 DEF AddPath
    <3>2. Names(shared') = Names(shared) /\ name \notin Names(shared)
      BY <2>1, <3>1 DEF Bound, Names
    <3> QED
      BY <2>1, <2>2, <3>1, <3>2 DEF Bound
  <2> QED
    BY <2>3, <2>4
<1>7. ASSUME NEW name, AddFails(name), UNCHANGED generation PROVE Bound'
  <2>1. UNCHANGED <<defs, shared, deferred>>
    BY <1>7 DEF AddFails, durable
  <2>2. DOMAIN paths' = Peers /\ \A p \in Peers : paths'[p] = paths[p]
    <3>1. CASE UNCHANGED paths
      BY <3>1 DEF Bound
    <3>2. ASSUME IsOpen, name \in assignable \ ToSet(defs), NEW done \in Partial,
                 paths' = rollback(done, Socket(name, nextPathID))
          PROVE  DOMAIN paths' = Peers /\ \A p \in Peers : paths'[p] = paths[p]
      <4>1. Socket(name, nextPathID).name \notin Names(shared)
        BY <3>2 DEF Bound, Socket
      <4>2. DOMAIN paths' = Peers
        BY <3>2 DEF rollback
      <4> QED
        BY <3>2, <4>1, <4>2, RollbackUndoes
    <3> QED
      BY <1>7, <3>1, <3>2 DEF AddFails
  <2> QED
    BY <2>1, <2>2 DEF Bound, IsOpen, Names
<1>8. ASSUME NEW name, RemovePath(name) PROVE Bound'
  <2>1. /\ IsOpen /\ deferred' = deferred \ {name}
        /\ shared' = {s \in shared : s.name # name}
        /\ paths' = [p \in Peers |-> {s \in paths[p] : s.name # name}]
    BY <1>8 DEF RemovePath, detach
  <2>2. ToSet(defs') = ToSet(defs) \ {name}
    BY <1>8, RemovePathDurable
  <2>3. Names(shared') = Names(shared) \ {name}
    BY <2>1 DEF Names
  <2>4. \A p \in Peers : paths'[p] = shared'
    BY <2>1 DEF Bound
  <2>5. \A s, t \in shared' : s.name = t.name => s = t
    BY <2>1 DEF Bound
  <2> QED
    BY <2>1, <2>2, <2>3, <2>4, <2>5 DEF Bound
<1>9. CASE ReloadStep
  BY <1>1, <1>6, <1>7, <1>8, <1>9
  DEF ReloadStep, ReloadAdd, ReloadRemove, ReloadDone, RemoveFails, durable, bound
<1>10. CASE Retire \/ OpenFails \/ Write \/ Move \/ Handle
  BY <1>1, <1>10 DEF Retire, forgetSocket, closeSocket, waitWrites, waitReaders, OpenFails,
                     Write, Move, Handle, learn, durable, bound
<1>11. ASSUME NEW d, Reload(d) PROVE Bound'
  BY <1>1, <1>11 DEF Reload, durable, bound
<1>12. ASSUME NEW s, readLoop(s) PROVE Bound'
  BY <1>1, <1>12 DEF readLoop, durable, bound
<1>13. ASSUME NEW by, Plan(by) PROVE Bound'
  BY <1>1, <1>13 DEF Plan, durable, bound
<1>14. CASE UNCHANGED vars
  BY <1>1, <1>14 DEF vars, durable, bound
<1> QED
  BY <1>2, <1>3, <1>4, <1>5, <1>9, <1>10, <1>11, <1>12, <1>13, <1>14 DEF Next

\* Every configured path of an open bind is bound or deferred, every peer has its
\* view of every socket, the probers stay aligned with m.defs (the error that
\* removeDurableLocked reports of a misaligned set cannot happen), and no id is
\* given to two paths.
THEOREM MembershipHolds == Spec => []MembershipWhole
<1>1. Init => Bound
  BY DEF Init, Bound, IsOpen
<1>2. Durable /\ Bound /\ IdsNeverReused => MembershipWhole
  BY DEF Durable, Bound, MembershipWhole
<1> QED
  BY <1>1, <1>2, DurableInit, DurableStep, BoundStep, IdsDistinct, PTL DEF Spec

----------------------------------------------------------------------------
(* Retired sockets.                                                        *)

\* A lane on a socket that is no longer bound waits for the transport to forget
\* it, and a write on one for the transition to have waited for it.
Retiring ==
  /\ lanes \subseteq shared \cup (IF transition.at = "forget" THEN transition.sockets ELSE {})
  /\ writer.at = "writing" =>
       writer.socket \in shared \cup
         (IF transition.at \in {"forget", "close", "writes"} THEN transition.sockets ELSE {})

\* A transition that starts takes what leaves the bind with it.
LEMMA RetirementStarts ==
  ASSUME Retiring, Unlocked, UNCHANGED <<lanes, writer>>,
         NEW S, NEW closing, shared \subseteq shared' \cup S,
         transition' = Retirement(S, closing)
  PROVE  Retiring'
BY DEF Retiring, Unlocked, Free, Retirement

\* Nothing leaves the bind.
LEMMA NothingRetires ==
  ASSUME Retiring, UNCHANGED <<lanes, writer, transition>>, shared \subseteq shared'
  PROVE  Retiring'
BY DEF Retiring

\* Every step keeps the retired sockets within the transition.
LEMMA RetiringStep == Retiring /\ [Next]_vars => Retiring'
<1> SUFFICES ASSUME Retiring, [Next]_vars PROVE Retiring'
  OBVIOUS
<1>1. CASE UNCHANGED <<lanes, writer, transition, shared>>
  BY <1>1, NothingRetires
<1>2. CASE Open \/ reconcileDeferred
  BY <1>2, NothingRetires DEF Open, reconcileDeferred, attach, traffic
<1>3. CASE Close
  BY <1>3, RetirementStarts DEF Close, traffic
<1>4. CASE promoteFails
  <2>1. UNCHANGED <<lanes, writer>> /\ Unlocked /\ shared \subseteq shared'
        /\ \E s : transition' = Retirement({s}, FALSE)
    BY <1>4 DEF promoteFails, traffic
  <2> QED
    BY <2>1, RetirementStarts
<1>5. ASSUME NEW name, AddPath(name) PROVE Retiring'
  BY <1>5, NothingRetires DEF AddPath, attach, traffic
<1>6. ASSUME NEW name, AddFails(name), Unlocked PROVE Retiring'
  <2>1. UNCHANGED <<lanes, writer, shared>>
    BY <1>6 DEF AddFails, traffic
  <2>2. UNCHANGED transition \/ \E s : transition' = Retirement({s}, FALSE)
    BY <1>6 DEF AddFails
  <2> QED
    BY <1>6, <2>1, <2>2, RetirementStarts, NothingRetires
<1>7. ASSUME NEW name, RemovePath(name), Unlocked PROVE Retiring'
  <2> DEFINE S == {s \in shared : s.name = name}
  <2>1. UNCHANGED <<lanes, writer>> /\ shared' = {s \in shared : s.name # name}
    BY <1>7 DEF RemovePath, detach, traffic
  <2>2. shared \subseteq shared' \cup S
    BY <2>1
  <2>3. CASE name \notin Names(shared)
    <3>1. transition' = Free
      BY <1>7, <2>3 DEF RemovePath
    <3>2. shared \subseteq shared'
      BY <2>1, <2>3 DEF Names
    <3> QED
      BY <1>7, <2>1, <3>1, <3>2, NothingRetires DEF Unlocked
  <2>4. CASE name \in Names(shared)
    <3>1. transition' = Retirement(S, FALSE)
      BY <1>7, <2>4 DEF RemovePath
    <3> QED
      BY <1>7, <2>1, <2>2, <3>1, RetirementStarts
  <2> QED
    BY <2>3, <2>4
<1>8. CASE ReloadStep
  BY <1>1, <1>5, <1>6, <1>7, <1>8
  DEF ReloadStep, ReloadAdd, ReloadRemove, ReloadDone, RemoveFails, bound, traffic
<1>9. CASE forgetSocket
  BY <1>9 DEF forgetSocket, GoesOnTo, Retiring, bound
<1>10. CASE closeSocket
  BY <1>10 DEF closeSocket, GoesOnTo, Retiring, bound, traffic
<1>11. CASE waitWrites
  <2>1. /\ lanes \subseteq shared /\ UNCHANGED <<lanes, writer, shared>>
        /\ writer.at = "writing" => writer.socket \in shared
    BY <1>11 DEF waitWrites, waited, Writing, Retiring, bound, traffic
  <2> QED
    BY <2>1 DEF Retiring
<1>12. CASE waitReaders
  <2>1. /\ lanes \subseteq shared /\ UNCHANGED <<lanes, writer, shared>>
        /\ writer.at = "writing" => writer.socket \in shared
    BY <1>12 DEF waitReaders, Retiring, bound, traffic
  <2> QED
    BY <2>1 DEF Retiring
<1>13. ASSUME NEW s, learn(s) PROVE Retiring'
  <2>1. lanes' \subseteq lanes \cup shared /\ UNCHANGED <<shared, writer, transition>>
    BY <1>13 DEF learn, learnable, writesClosed, bound
  <2> QED
    BY <2>1 DEF Retiring
<1>14. CASE Write
  <2>1. UNCHANGED <<lanes, shared, transition>>
    BY <1>14 DEF Write, bound
  <2>2. \/ writer' = Idle
        \/ /\ writer.socket \in shared
           /\ writer' = [at |-> "writing", socket |-> writer.socket, by |-> writer.by]
    BY <1>14 DEF Write, writesClosed
  <2> QED
    BY <2>1, <2>2 DEF Retiring, Idle
<1>15. ASSUME NEW by, Plan(by) PROVE Retiring'
  <2>1. UNCHANGED <<lanes, shared, transition>> /\ \E s : writer' = [at |-> "planned", socket |-> s, by |-> by]
    BY <1>15 DEF Plan, bound
  <2> QED
    BY <2>1 DEF Retiring
<1>16. CASE OpenFails \/ Move
  BY <1>1, <1>16 DEF OpenFails, Move, bound, traffic
<1>17. ASSUME NEW d, Reload(d) PROVE Retiring'
  BY <1>1, <1>17 DEF Reload, bound, traffic
<1>18. ASSUME NEW s, readLoop(s) PROVE Retiring'
  BY <1>1, <1>18 DEF readLoop, bound
<1>19. CASE UNCHANGED vars
  BY <1>1, <1>19 DEF vars, bound, traffic
<1> QED
  BY <1>2, <1>3, <1>4, <1>8, <1>9, <1>10, <1>11, <1>12, <1>13, <1>14, <1>15, <1>16, <1>17, <1>18,
     <1>19
  DEF Next, Retire, Handle

\* No lane is left on a retired socket, and no write when its transition has
\* returned, whatever was being handled or planned (learn, stopWrites, waitWrites).
THEOREM RetiredStaysQuiet == Spec => []RetiredIsQuiet
<1>1. Init => Retiring
  BY DEF Init, Retiring, Idle
<1>2. Retiring => RetiredIsQuiet
  BY DEF Retiring, RetiredIsQuiet, MuFree, Unlocked, Free
<1> QED
  BY <1>1, <1>2, RetiringStep, PTL DEF Spec
============================================================================
