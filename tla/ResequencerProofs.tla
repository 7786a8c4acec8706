------------------------- MODULE ResequencerProofs -------------------------
(***************************************************************************)
(* Proofs about the resequencer for every window, timeout, bound and set   *)
(* of sequence numbers.                                                    *)
(***************************************************************************)
EXTENDS Resequencer, TLAPS, FiniteSetTheorems, NaturalsInduction,
        WellFoundedInduction

\* Every non-empty set of naturals has a least element.
LEMMA NatMin ==
    ASSUME NEW T \in SUBSET Nat, T # {}
    PROVE  \E x \in T : \A y \in T : x <= y
<1>1. PICK x \in T : \A y \in T : ~(<<y, x>> \in OpToRel(<, Nat))
  BY WFMin, NatLessThanWellFounded, Zenon
<1>2. ASSUME NEW y \in T PROVE x <= y
  <2>1. ~(y < x)
    BY <1>1, Zenon DEF OpToRel
  <2> QED BY <2>1
<1> QED BY <1>2

\* A remainder is a cell index, and two numbers less than a window apart with the
\* same cell are equal.
LEMMA CellOf ==
    ASSUME NEW s \in Nat
    PROVE  s % Window \in Cells
BY ReseqAssumption DEF Cells

LEMMA CellUnique ==
    ASSUME NEW a \in Nat, NEW b \in Nat, a % Window = b % Window,
           a <= b, b < a + Window
    PROVE  a = b
<1> DEFINE d == (b \div Window) - (a \div Window)
<1>0. Window \in Nat /\ Window > 0
  BY ReseqAssumption
<1>1. /\ a \div Window \in Int /\ b \div Window \in Int
      /\ a = Window * (a \div Window) + (a % Window)
      /\ b = Window * (b \div Window) + (b % Window)
  BY <1>0
<1>2. d \in Int /\ b - a = Window * d
  BY <1>0, <1>1
<1>3. d < 1
  <2> SUFFICES ASSUME d >= 1 PROVE FALSE
    BY <1>2
  <2>1. Window * d >= Window
    BY <1>0, <1>2
  <2> QED BY <2>1, <1>0, <1>2
<1>4. d > -1
  <2> SUFFICES ASSUME d <= -1 PROVE FALSE
    BY <1>2
  <2>1. Window * d < 0
    BY <1>0, <1>2
  <2> QED BY <2>1, <1>0, <1>2
<1>5. d = 0
  BY <1>2, <1>3, <1>4
<1> QED BY <1>0, <1>2, <1>5

-----------------------------------------------------------------------------
(***************************************************************************)
(* Types and the window.  Every operator on the struct preserves Good.     *)
(***************************************************************************)
Good(st) == st \in Struct /\ InWindow(st)

\* Nothing is buffered before the release point is pinned.
FreshEmpty(st) == ~st.started => \A i \in Cells : ~st.ring[i].occupied

LEMMA PassedFinite ==
    ASSUME NEW st \in Struct, NEW target \in Nat
    PROVE  /\ Passed(st, target) \in SUBSET Nat
           /\ IsFiniteSet(Passed(st, target))
           /\ Cardinality(Passed(st, target)) \in Nat
<1>1. st.next \in Nat
  BY DEF Struct
<1>2. Passed(st, target) \in SUBSET (st.next .. (target - 1))
  BY DEF Passed
<1>3. IsFiniteSet(st.next .. (target - 1))
  BY <1>1, FS_Interval
<1>4. IsFiniteSet(Passed(st, target))
  BY <1>2, <1>3, FS_Subset
<1> QED BY <1>1, <1>2, <1>4, FS_CardinalityType

LEMMA AdvanceGood ==
    ASSUME NEW st, Good(st), NEW target \in Nat, st.next <= target
    PROVE  Good(Advance(st, target))
<1> DEFINE out == Passed(st, target)
           adv == Advance(st, target)
<1> USE ReseqAssumption
<1>0. st \in Struct /\ InWindow(st)
  BY DEF Good
<1>1. out \in SUBSET Nat /\ Cardinality(out) \in Nat
  BY <1>0, PassedFinite
<1>2. Empty \in Cell
  BY DEF Empty, Cell
<1>3. \A s \in out : st.ring[s % Window] \in Cell
  BY <1>0, <1>1, CellOf DEF Struct
<1>4. out # {} => {Item(s, st.ring[s % Window].pin) : s \in out} \in Batch
  <2>1. \A s \in out : Item(s, st.ring[s % Window].pin) \in [seq : Nat, pin : Nat]
    BY <1>1, <1>3 DEF Cell, Item
  <2> HIDE DEF out
  <2> QED BY <2>1 DEF Batch
<1> DEFINE rel == Release(st, out)
<1>5. rel \in Struct
  <2>1. (IF out = {} THEN st.ready
         ELSE Append(st.ready, {Item(s, st.ring[s % Window].pin) : s \in out}))
           \in Seq(Batch)
    BY <1>0, <1>4 DEF Struct
  <2>2. [i \in Cells |-> IF st.ring[i].occupied /\ st.ring[i].seq \in out
                         THEN Empty ELSE st.ring[i]] \in [Cells -> Cell]
    BY <1>0, <1>2 DEF Struct
  <2>3. /\ st.buf - Cardinality(out) \in Int
        /\ st.rel + Cardinality(out) \in Int
    BY <1>0, <1>1 DEF Struct
  <2> QED BY <1>0, <2>1, <2>2, <2>3 DEF Release, Struct
<1>6. adv \in Struct
  <2> DEFINE moved == rel.skip + (target - st.next - Cardinality(out))
  <2>1. adv = [rel EXCEPT !.skip = moved, !.next = target]
    BY DEF Advance
  <2> HIDE DEF adv, rel, out
  <2>a. rel.skip \in Int
    BY <1>5 DEF Struct
  <2>b. st.next \in Int
    BY <1>0 DEF Struct
  <2>2. moved \in Int
    BY <2>a, <2>b, <1>1
  <2> HIDE DEF moved
  <2> QED BY <1>5, <2>1, <2>2 DEF Struct
<1>7. /\ adv.next = target
      /\ adv.ring = [i \in Cells |-> IF st.ring[i].occupied /\ st.ring[i].seq \in out
                                     THEN Empty ELSE st.ring[i]]
  BY <1>0, <1>5 DEF Advance, Release, Struct
<1>8. ASSUME NEW i \in Cells, adv.ring[i].occupied
      PROVE  /\ adv.ring[i].seq % Window = i
             /\ adv.next <= adv.ring[i].seq
             /\ adv.ring[i].seq < adv.next + Window
  <2>1. st.ring[i].occupied /\ st.ring[i].seq \notin out /\ adv.ring[i] = st.ring[i]
    BY <1>7, <1>8 DEF Empty
  <2>2. st.ring[i] \in Cell /\ st.next \in Nat
    BY <1>0 DEF Struct
  <2>3. /\ st.ring[i].seq \in Nat
        /\ st.ring[i].seq % Window = i
        /\ st.next <= st.ring[i].seq
        /\ st.ring[i].seq < st.next + Window
    BY <1>0, <2>1, <2>2 DEF InWindow, Cell
  <2>4. Present(st.ring, st.ring[i].seq)
    BY <2>1, <2>3 DEF Present
  <2>5. target <= st.ring[i].seq
    BY <2>1, <2>2, <2>3, <2>4 DEF Passed
  <2> QED BY <1>7, <2>1, <2>2, <2>3, <2>5
<1>9. InWindow(adv)
  BY <1>8 DEF InWindow
<1> QED BY <1>6, <1>9 DEF Good

\* What is buffered is inside the window, and Present says the same as Buffered.
LEMMA BufferedInWindow ==
    ASSUME NEW st, Good(st)
    PROVE  /\ st.next \in Nat
           /\ Buffered(st.ring) \in SUBSET Nat
           /\ \A s \in Buffered(st.ring) : /\ Present(st.ring, s)
                                           /\ st.next <= s
                                           /\ s < st.next + Window
           /\ \A s \in Nat : Present(st.ring, s) => s \in Buffered(st.ring)
<1> USE ReseqAssumption
<1>1. st.next \in Nat /\ st.ring \in [Cells -> Cell] /\ InWindow(st)
  BY DEF Good, Struct
<1>2. ASSUME NEW s \in Buffered(st.ring)
      PROVE  /\ s \in Nat
             /\ Present(st.ring, s)
             /\ st.next <= s
             /\ s < st.next + Window
  <2>1. PICK i \in Cells : st.ring[i].occupied /\ s = st.ring[i].seq
    BY <1>2 DEF Buffered
  <2>2. s \in Nat
    BY <1>1, <2>1 DEF Cell
  <2>3. s % Window = i /\ st.next <= s /\ s < st.next + Window
    BY <1>1, <2>1 DEF InWindow
  <2> QED BY <2>1, <2>2, <2>3 DEF Present
<1>3. ASSUME NEW s \in Nat, Present(st.ring, s)
      PROVE  s \in Buffered(st.ring)
  BY <1>3, CellOf DEF Present, Buffered
<1> QED BY <1>1, <1>2, <1>3

\* drain stops: the run that starts at next has an end within the window.
LEMMA RunEndExists ==
    ASSUME NEW st, Good(st)
    PROVE  LET e == RunEnd(st.ring, st.next)
           IN  /\ e \in Nat
               /\ st.next <= e
               /\ e <= st.next + Window
               /\ ~Present(st.ring, e)
               /\ \A k \in st.next .. (e - 1) : Present(st.ring, k)
<1> DEFINE T == {e \in st.next .. (st.next + Window) : ~Present(st.ring, e)}
<1>1. st.next \in Nat /\ Window \in Nat /\ Window > 0
  BY BufferedInWindow, ReseqAssumption
<1>2. ~Present(st.ring, st.next + Window)
  <2> SUFFICES ASSUME Present(st.ring, st.next + Window) PROVE FALSE
    OBVIOUS
  <2>1. st.next + Window \in Buffered(st.ring)
    BY <1>1, BufferedInWindow
  <2>2. st.next + Window < st.next + Window
    BY <2>1, BufferedInWindow
  <2> QED BY <1>1, <2>2
<1>3. T \in SUBSET Nat /\ T # {}
  BY <1>1, <1>2
<1>4. PICK m \in T : \A y \in T : m <= y
  BY <1>3, NatMin
<1>5. ASSUME NEW k \in st.next .. (m - 1) PROVE Present(st.ring, k)
  <2>1. k \in st.next .. (st.next + Window) /\ ~(m <= k)
    BY <1>1, <1>4
  <2> QED BY <1>4, <2>1
<1>6. \E e \in st.next .. (st.next + Window) :
          /\ ~Present(st.ring, e)
          /\ \A k \in st.next .. (e - 1) : Present(st.ring, k)
  BY <1>4, <1>5
<1>7. LET e == RunEnd(st.ring, st.next)
      IN  /\ e \in st.next .. (st.next + Window)
          /\ ~Present(st.ring, e)
          /\ \A k \in st.next .. (e - 1) : Present(st.ring, k)
  BY <1>6, Zenon DEF RunEnd
<1> QED BY <1>1, <1>7

LEMMA DrainGood ==
    ASSUME NEW st, Good(st)
    PROVE  Good(Drain(st))
BY RunEndExists, AdvanceGood DEF Drain

LEMMA EndHoldGood ==
    ASSUME NEW st, Good(st)
    PROVE  Good(EndHold(st))
BY DEF Good, EndHold, Struct, InWindow

LEMMA EffectiveHoldType ==
    ASSUME NEW st \in Struct
    PROVE  EffectiveHold(st) \in Nat
BY ReseqAssumption DEF EffectiveHold, Struct

\* The oldest live entry of held exists when there is a live one.
LEMMA OldestHeldExists ==
    ASSUME NEW st \in Struct, NEW n \in Nat, LiveFrom(st, n) # {}
    PROVE  LET k == OldestHeld(st, n)
           IN  /\ k \in 1 .. Len(st.held)
               /\ k \in LiveFrom(st, n)
               /\ \A j \in LiveFrom(st, n) : k <= j
<1>1. LiveFrom(st, n) \in SUBSET Nat
  BY DEF LiveFrom, Struct
<1>2. \E k \in LiveFrom(st, n) : \A j \in LiveFrom(st, n) : k <= j
  BY <1>1, NatMin
<1>3. LET k == OldestHeld(st, n)
      IN  k \in LiveFrom(st, n) /\ \A j \in LiveFrom(st, n) : k <= j
  BY <1>2, Zenon DEF OldestHeld
<1> QED BY <1>3 DEF LiveFrom

LEMMA ArmGood ==
    ASSUME NEW st, Good(st)
    PROVE  Good(Arm(st))
<1>0. st \in Struct /\ InWindow(st) /\ st.next \in Nat
  BY DEF Good, Struct
<1>1. CASE Present(st.ring, st.next) \/ st.buf = 0
  BY <1>1, EndHoldGood DEF Arm
<1>2. CASE ~(Present(st.ring, st.next) \/ st.buf = 0) /\ st.waiting
  BY <1>2 DEF Arm
<1>3. CASE /\ ~(Present(st.ring, st.next) \/ st.buf = 0) /\ ~st.waiting
           /\ LiveFrom(st, st.next) = {}
  BY <1>0, <1>3 DEF Arm, Good, Struct, InWindow
<1>4. CASE /\ ~(Present(st.ring, st.next) \/ st.buf = 0) /\ ~st.waiting
           /\ LiveFrom(st, st.next) # {}
  <2> DEFINE k == OldestHeld(st, st.next)
             dl == ObservedAt(st.ring, st.held[k]) + EffectiveHold(st)
             hd == SubSeq(st.held, k, Len(st.held))
  <2>1. k \in 1 .. Len(st.held)
    BY <1>0, <1>4, OldestHeldExists
  <2>2. st.held \in Seq(Nat) /\ st.held[k] \in Nat
    BY <1>0, <2>1 DEF Struct
  <2>3. ObservedAt(st.ring, st.held[k]) \in Nat
    BY <1>0, <2>2, CellOf DEF ObservedAt, Struct, Cell
  <2>4. dl \in Nat
    BY <1>0, <2>3, EffectiveHoldType
  <2>5. hd \in Seq(Nat)
    BY <2>1, <2>2
  <2>6. Arm(st) = [st EXCEPT !.waiting = TRUE, !.deadline = dl, !.held = hd]
    BY <1>4 DEF Arm
  <2> HIDE DEF dl, hd
  <2> QED BY <1>0, <2>4, <2>5, <2>6 DEF Good, Struct, InWindow
<1> QED BY <1>1, <1>2, <1>3, <1>4

\* expire's loop stops: with something buffered there is a run end above all of
\* it, so there is a first run end at which the loop need not go on.
LEMMA ExpireToExists ==
    ASSUME NEW st, Good(st), NEW t \in Nat, Buffered(st.ring) # {}
    PROVE  LET e == ExpireTo(st, t)
           IN  /\ e \in Stops(st, t)
               /\ e \in Nat
               /\ st.next < e
               /\ \A d \in Stops(st, t) : e <= d
<1> DEFINE B == Buffered(st.ring)
           T == {n \in Nat : \A s \in B : s < n}
<1>1. /\ st.next \in Nat /\ Window \in Nat
      /\ B \in SUBSET Nat
      /\ \A s \in B : Present(st.ring, s) /\ st.next <= s /\ s < st.next + Window
      /\ \A s \in Nat : Present(st.ring, s) => s \in B
  BY BufferedInWindow, ReseqAssumption
<1>2. st.next + Window \in T
  BY <1>1
<1>3. PICK m \in T : \A y \in T : m <= y
  <2>1. T \in SUBSET Nat /\ T # {}
    BY <1>2
  <2> QED BY <2>1, NatMin
<1>4. PICK b \in B : TRUE
  OBVIOUS
<1>5. m \in Nat /\ b < m /\ st.next < m /\ m <= st.next + Window
  BY <1>1, <1>2, <1>3, <1>4
<1>6. m - 1 \in B
  <2> SUFFICES ASSUME m - 1 \notin B PROVE FALSE
    OBVIOUS
  <2>1. \A s \in B : s < m - 1
    BY <1>1, <1>3, <1>5
  <2>2. m - 1 \in T
    BY <1>1, <1>5, <2>1
  <2>3. m <= m - 1
    BY <1>3, <2>2
  <2> QED BY <1>5, <2>3
<1>7. m \notin B
  BY <1>1, <1>3, <1>5
<1>8. m \in Stops(st, t)
  <2>1. m \in RunEnds(st)
    BY <1>1, <1>5, <1>6, <1>7 DEF RunEnds
  <2>2. StopsAt(st, m, t)
    BY <1>3 DEF StopsAt
  <2> QED BY <2>1, <2>2 DEF Stops
<1>9. Stops(st, t) \in SUBSET Nat /\ \A e \in Stops(st, t) : st.next < e
  BY <1>1 DEF Stops, RunEnds
<1>10. \E e \in Stops(st, t) : \A d \in Stops(st, t) : e <= d
  BY <1>8, <1>9, NatMin
<1>11. LET e == ExpireTo(st, t)
       IN  e \in Stops(st, t) /\ \A d \in Stops(st, t) : e <= d
  BY <1>10, Zenon DEF ExpireTo
<1> QED BY <1>9, <1>11

LEMMA ExpireGood ==
    ASSUME NEW st, Good(st), NEW t \in Nat
    PROVE  Good(Expire(st, t))
<1>1. CASE ~st.waiting \/ t < st.deadline
  BY <1>1 DEF Expire
<1>2. CASE ~(~st.waiting \/ t < st.deadline) /\ Buffered(st.ring) = {}
  BY <1>2, EndHoldGood DEF Expire
<1>3. CASE ~(~st.waiting \/ t < st.deadline) /\ Buffered(st.ring) # {}
  <2> DEFINE e == ExpireTo(st, t)
  <2>1. e \in Nat /\ st.next <= e
    <3>1. e \in Nat /\ st.next < e
      BY <1>3, ExpireToExists
    <3> QED BY <3>1 DEF Good, Struct
  <2>2. Good(Advance(st, e))
    BY <2>1, AdvanceGood
  <2>3. Good(Arm(EndHold(Advance(st, e))))
    BY <2>2, EndHoldGood, ArmGood
  <2> QED BY <1>3, <2>3 DEF Expire
<1> QED BY <1>1, <1>2, <1>3

LEMMA PinnedGood ==
    ASSUME NEW st, Good(st), NEW s \in Nat, FreshEmpty(st)
    PROVE  Good(Pinned(st, s))
<1>1. CASE st.started
  BY <1>1 DEF Pinned
<1>2. CASE ~st.started
  <2>1. Pinned(st, s) \in Struct
    BY <1>2 DEF Pinned, Good, Struct
  <2>2. Pinned(st, s).ring = st.ring
    BY <1>2 DEF Pinned, Good, Struct
  <2> QED BY <1>2, <2>1, <2>2 DEF Good, InWindow, FreshEmpty
<1> QED BY <1>1, <1>2

LEMMA FitGood ==
    ASSUME NEW st, Good(st), NEW s \in Nat, InBand(st, s)
    PROVE  /\ Good(Fit(st, s))
           /\ Fit(st, s).next <= s
           /\ s < Fit(st, s).next + Window
<1>0. /\ st.next \in Nat /\ st.next <= s
      /\ Window \in Nat /\ Window > 0
  BY ReseqAssumption DEF Good, Struct, InBand
<1>1. CASE s - st.next < Window
  BY <1>0, <1>1 DEF Fit
<1>2. CASE ~(s - st.next < Window)
  <2> DEFINE target == s - Window + 1
             eh == EndHold(st)
  <2>1. target \in Nat /\ st.next <= target /\ target <= s /\ s < target + Window
    BY <1>0, <1>2
  <2>2. Good(eh) /\ eh.next = st.next
    BY EndHoldGood DEF EndHold, Good, Struct
  <2>3. Good(Advance(eh, target))
    BY <2>1, <2>2, AdvanceGood
  <2>4. Advance(eh, target).next = target
    BY <2>2 DEF Advance, Release, Good, Struct
  <2> QED BY <1>2, <2>1, <2>3, <2>4 DEF Fit
<1> QED BY <1>1, <1>2

LEMMA StoreGood ==
    ASSUME NEW st, Good(st), NEW s \in Nat, NEW t \in Nat,
           st.next <= s, s < st.next + Window
    PROVE  Good(Store(st, s, t))
<1> DEFINE c == s % Window
           cell == [occupied |-> TRUE, seq |-> s, at |-> t, pin |-> st.pins]
           h == IF s = st.next THEN st.held ELSE Append(st.held, s)
           stored == Store(st, s, t)
<1>0. st \in Struct /\ InWindow(st) /\ c \in Cells
  BY CellOf DEF Good
<1>1. cell \in Cell
  BY <1>0 DEF Cell, Struct
<1>2. [st.ring EXCEPT ![c] = cell] \in [Cells -> Cell]
  BY <1>0, <1>1 DEF Struct
<1>3. h \in Seq(Nat)
  BY <1>0 DEF Struct
<1>4. st.buf + 1 \in Int
  BY <1>0 DEF Struct
<1>5. stored = [st EXCEPT !.ring = [st.ring EXCEPT ![c] = cell], !.buf = st.buf + 1,
                          !.held = h, !.waiting = st.waiting /\ s # st.next]
  BY <1>0 DEF Store, Struct
<1>6. stored \in Struct
  <2> HIDE DEF h, cell, c, stored
  <2> QED BY <1>0, <1>2, <1>3, <1>4, <1>5 DEF Struct
<1>7. InWindow(stored)
  <2>1. stored.next = st.next /\ stored.ring = [st.ring EXCEPT ![c] = cell]
    BY <1>0, <1>5 DEF Struct
  <2> HIDE DEF stored
  <2> QED BY <1>0, <2>1 DEF InWindow, Struct
<1> QED BY <1>6, <1>7 DEF Good

LEMMA PlaceGood ==
    ASSUME NEW st, Good(st), NEW s \in Nat, NEW t \in Nat,
           st.next <= s, s < st.next + Window
    PROVE  Good(Place(st, s, t))
BY StoreGood, DrainGood, ArmGood DEF Place

LEMMA RepinGood ==
    ASSUME NEW st \in Struct, NEW n \in Nat
    PROVE  /\ Good(Repin(st, n))
           /\ Repin(st, n).next = n
<1>1. [i \in Cells |-> Empty] \in [Cells -> Cell]
  BY DEF Empty, Cell
<1>2. Repin(st, n) \in Struct
  <2> DEFINE r == [i \in Cells |-> Empty]
             p == st.pins + 1
             zero == 0
             noSeq == <<>>
             noRun == {}
  <2>1. /\ r \in [Cells -> Cell] /\ p \in Nat
        /\ zero \in Int /\ noSeq \in Seq(Nat) /\ noRun \in SUBSET Nat
    BY <1>1 DEF Struct
  <2> DEFINE cleared == [st EXCEPT !.ring = r, !.buf = zero, !.held = noSeq]
             moved == [cleared EXCEPT !.started = TRUE, !.next = n, !.base = n]
             counted == [moved EXCEPT !.rel = zero, !.skip = zero, !.pins = p]
  <2>2. Repin(st, n) = [counted EXCEPT !.waiting = FALSE, !.run = noRun]
    BY DEF Repin, Struct
  <2> HIDE DEF r, p, zero, noSeq, noRun
  <2>3. cleared \in Struct
    BY <2>1 DEF Struct
  <2> HIDE DEF cleared
  <2>4. moved \in Struct
    BY <2>3 DEF Struct
  <2> HIDE DEF moved
  <2>5. counted \in Struct
    BY <2>1, <2>4 DEF Struct
  <2> HIDE DEF counted
  <2> QED BY <2>1, <2>2, <2>5 DEF Struct
<1>3. Repin(st, n).next = n /\ Repin(st, n).ring = [i \in Cells |-> Empty]
  BY DEF Repin, Struct
<1> QED BY <1>2, <1>3 DEF Good, InWindow, Empty

-----------------------------------------------------------------------------
(***************************************************************************)
(* What the operators leave alone: apart from a re-pin, none of them       *)
(* changes the pin or moves the release point back.                        *)
(***************************************************************************)
Onward(a, b) == /\ b.started = a.started
                /\ b.pins = a.pins
                /\ b.base = a.base
                /\ a.next <= b.next

LEMMA OnwardTransitive ==
    ASSUME NEW a \in Struct, NEW b \in Struct, NEW c \in Struct,
           Onward(a, b), Onward(b, c)
    PROVE  Onward(a, c)
<1>1. a.next \in Nat /\ b.next \in Nat /\ c.next \in Nat
  BY DEF Struct
<1>2. c.started = a.started /\ c.pins = a.pins /\ c.base = a.base
  BY Zenon DEF Onward
<1>3. a.next <= c.next
  BY <1>1 DEF Onward
<1> QED BY <1>2, <1>3, Zenon DEF Onward

LEMMA AdvanceOnward ==
    ASSUME NEW st \in Struct, NEW target \in Nat, st.next <= target
    PROVE  Onward(st, Advance(st, target))
BY DEF Onward, Advance, Release, Struct

LEMMA DrainOnward ==
    ASSUME NEW st, Good(st)
    PROVE  Onward(st, Drain(st))
BY RunEndExists, AdvanceOnward DEF Drain, Good

LEMMA EndHoldOnward ==
    ASSUME NEW st \in Struct
    PROVE  Onward(st, EndHold(st))
BY DEF Onward, EndHold, Struct

LEMMA ArmOnward ==
    ASSUME NEW st \in Struct
    PROVE  Onward(st, Arm(st))
BY DEF Onward, Arm, EndHold, Struct

LEMMA ExpireOnward ==
    ASSUME NEW st, Good(st), NEW t \in Nat
    PROVE  Onward(st, Expire(st, t))
<1>0. st \in Struct
  BY DEF Good
<1>1. CASE ~st.waiting \/ t < st.deadline
  BY <1>0, <1>1 DEF Expire, Onward, Struct
<1>2. CASE ~(~st.waiting \/ t < st.deadline) /\ Buffered(st.ring) = {}
  BY <1>0, <1>2, EndHoldOnward DEF Expire
<1>3. CASE ~(~st.waiting \/ t < st.deadline) /\ Buffered(st.ring) # {}
  <2> DEFINE e == ExpireTo(st, t)
             adv == Advance(st, e)
             eh == EndHold(adv)
  <2>1. e \in Nat /\ st.next <= e
    <3>1. e \in Nat /\ st.next < e
      BY <1>3, ExpireToExists
    <3> QED BY <1>0, <3>1 DEF Struct
  <2>2. Good(adv) /\ Onward(st, adv)
    BY <1>0, <2>1, AdvanceGood, AdvanceOnward
  <2>3. Good(eh) /\ Onward(adv, eh)
    BY <2>2, EndHoldGood, EndHoldOnward DEF Good
  <2>4. Good(Arm(eh)) /\ Onward(eh, Arm(eh))
    BY <2>3, ArmGood, ArmOnward DEF Good
  <2>5. Expire(st, t) = Arm(eh)
    BY <1>3 DEF Expire
  <2> HIDE DEF adv, eh
  <2> QED BY <1>0, <2>2, <2>3, <2>4, <2>5, OnwardTransitive DEF Good
<1> QED BY <1>1, <1>2, <1>3

LEMMA PlaceOnward ==
    ASSUME NEW st, Good(st), NEW s \in Nat, NEW t \in Nat,
           st.next <= s, s < st.next + Window
    PROVE  Onward(st, Place(st, s, t))
<1> DEFINE stored == Store(st, s, t)
           drained == Drain(stored)
<1>0. st \in Struct
  BY DEF Good
<1>1. Good(stored) /\ Onward(st, stored)
  <2>1. Good(stored)
    BY StoreGood
  <2>2. Onward(st, stored)
    BY <1>0 DEF Store, Onward, Struct
  <2> QED BY <2>1, <2>2
<1>2. Good(drained) /\ Onward(stored, drained)
  BY <1>1, DrainGood, DrainOnward
<1>3. Good(Arm(drained)) /\ Onward(drained, Arm(drained))
  BY <1>2, ArmGood, ArmOnward DEF Good
<1>4. Place(st, s, t) = st \/ Place(st, s, t) = Arm(drained)
  BY DEF Place
<1>5. Onward(st, st)
  BY <1>0 DEF Onward, Struct
<1> HIDE DEF stored, drained
<1> QED BY <1>0, <1>1, <1>2, <1>3, <1>4, <1>5, OnwardTransitive DEF Good

LEMMA FitOnward ==
    ASSUME NEW st, Good(st), NEW s \in Nat, InBand(st, s)
    PROVE  Onward(st, Fit(st, s))
<1>0. /\ st \in Struct /\ st.next \in Nat /\ st.next <= s
      /\ Window \in Nat /\ Window > 0
  BY ReseqAssumption DEF Good, Struct, InBand
<1>1. CASE s - st.next < Window
  BY <1>0, <1>1 DEF Fit, Onward
<1>2. CASE ~(s - st.next < Window)
  <2> DEFINE target == s - Window + 1
             eh == EndHold(st)
  <2>1. target \in Nat /\ st.next <= target
    BY <1>0, <1>2
  <2>2. Good(eh) /\ Onward(st, eh) /\ eh.next = st.next
    BY <1>0, EndHoldGood, EndHoldOnward DEF EndHold, Struct
  <2>3. Onward(eh, Advance(eh, target)) /\ Good(Advance(eh, target))
    BY <2>1, <2>2, AdvanceOnward, AdvanceGood DEF Good
  <2>4. Fit(st, s) = Advance(eh, target)
    BY <1>2 DEF Fit
  <2> HIDE DEF eh, target
  <2> QED BY <1>0, <2>2, <2>3, <2>4, OnwardTransitive DEF Good
<1> QED BY <1>1, <1>2

-----------------------------------------------------------------------------
(***************************************************************************)
(* The inductive invariant: the window, the types, and an empty ring until *)
(* the first sequence pins the release point (without it the pin could     *)
(* leave the window of what is buffered).                                  *)
(***************************************************************************)
IInv == TypeOK /\ RingInWindow /\ FreshEmpty(rq)

LEMMA InitIInv == Init => IInv
<1> SUFFICES ASSUME Init PROVE IInv
  OBVIOUS
<1>1. [i \in Cells |-> Empty] \in [Cells -> Cell]
  BY DEF Empty, Cell
<1>2. <<>> \in Seq(Nat) /\ <<>> \in Seq(Batch)
  OBVIOUS
<1>3. rq \in Struct
  BY <1>1, <1>2 DEF Init, Struct
<1>4. TypeOK
  BY <1>3 DEF Init, TypeOK, Item, NoTime
<1>5. \A i \in Cells : ~rq.ring[i].occupied
  BY DEF Init, Empty
<1> QED BY <1>4, <1>5 DEF IInv, RingInWindow, InWindow, FreshEmpty

\* The state in which Observe classifies a frame.
LEMMA ArrivedGood ==
    ASSUME IInv, NEW s \in Seqs
    PROVE  /\ s \in Nat
           /\ Good(Arrived(s))
           /\ Arrived(s).started
           /\ Onward(Pinned(rq, s), Arrived(s))
<1>1. s \in Nat
  BY ReseqAssumption
<1>2. now \in Nat /\ Good(rq) /\ FreshEmpty(rq)
  BY DEF IInv, TypeOK, RingInWindow, Good
<1>3. Good(Pinned(rq, s))
  BY <1>1, <1>2, PinnedGood
<1>4. Pinned(rq, s).started
  BY <1>2 DEF Pinned, Good, Struct
<1>5. Good(Arrived(s)) /\ Onward(Pinned(rq, s), Arrived(s))
  BY <1>2, <1>3, ExpireGood, ExpireOnward DEF Arrived
<1>6. Arrived(s).started
  BY <1>4, <1>5, Zenon DEF Onward
<1> QED BY <1>1, <1>5, <1>6

LEMMA RunGood ==
    ASSUME NEW st, Good(st), NEW r \in SUBSET Nat
    PROVE  /\ Good([st EXCEPT !.run = r])
           /\ Onward(st, [st EXCEPT !.run = r])
<1> DEFINE u == [st EXCEPT !.run = r]
<1>1. st \in Struct /\ InWindow(st)
  BY DEF Good
<1>2. u \in Struct
  BY <1>1 DEF Struct
<1>3. u.next = st.next /\ u.ring = st.ring /\ u.started = st.started
      /\ u.pins = st.pins /\ u.base = st.base
  BY <1>1 DEF Struct
<1>4. st.next \in Nat
  BY <1>1 DEF Struct
<1> HIDE DEF u
<1>5. Good(u)
  BY <1>1, <1>2, <1>3 DEF Good, InWindow
<1>6. Onward(st, u)
  BY <1>3, <1>4 DEF Onward
<1> QED BY <1>5, <1>6 DEF u

\* Every arrival leaves the struct good, started, and no further back than it was,
\* unless it re-pinned.
LEMMA ObserveGood ==
    ASSUME IInv, NEW s \in Seqs,
           ObserveLate(s) \/ ObserveSuspect(s) \/ ObserveResync(s) \/ ObserveInBand(s)
    PROVE  /\ Good(rq')
           /\ rq'.started
           /\ rq'.pins = Arrived(s).pins + 1 \/ Onward(Arrived(s), rq')
<1> DEFINE st == Arrived(s)
<1>0. /\ s \in Nat /\ now \in Nat
      /\ Good(st) /\ st \in Struct /\ st.started /\ st.pins \in Nat /\ st.next \in Nat
      /\ Window \in Nat /\ Window > 0
  <2>1. s \in Nat /\ Good(st) /\ st.started
    BY ArrivedGood
  <2> HIDE DEF st
  <2>2. st \in Struct /\ st.pins \in Nat /\ st.next \in Nat
    BY <2>1 DEF Good, Struct
  <2>3. now \in Nat
    BY DEF IInv, TypeOK
  <2> QED BY <2>1, <2>2, <2>3, ReseqAssumption
<1> HIDE DEF st
<1>1. CASE ObserveLate(s)
  <2>1. rq' = [st EXCEPT !.run = {}]
    BY <1>1 DEF ObserveLate, st
  <2>2. Good(rq') /\ Onward(st, rq')
    BY <1>0, <2>1, RunGood
  <2> QED BY <1>0, <2>2, Zenon DEF Onward, st
<1>2. CASE ObserveSuspect(s)
  <2> DEFINE r == IF st.run = {} \/ SpanExceeds(st.run, s) THEN {s} ELSE st.run \cup {s}
  <2>1. rq' = [st EXCEPT !.run = r]
    BY <1>2 DEF ObserveSuspect, st
  <2>2. r \in SUBSET Nat
    BY <1>0 DEF Struct
  <2> HIDE DEF r
  <2>3. Good(rq') /\ Onward(st, rq')
    BY <1>0, <2>1, <2>2, RunGood
  <2> QED BY <1>0, <2>3, Zenon DEF Onward, st
<1>3. CASE ObserveResync(s)
  <2> DEFINE rp == Repin(st, s)
  <2>1. rq' = Place(rp, s, now)
    BY <1>3 DEF ObserveResync, st
  <2>2. Good(rp) /\ rp.next = s
    BY <1>0, RepinGood
  <2>3. rp.pins = st.pins + 1 /\ rp.started
    BY <1>0 DEF Repin, Struct
  <2> HIDE DEF rp
  <2>4. rp.next <= s /\ s < rp.next + Window
    BY <1>0, <2>2
  <2>5. Good(rq') /\ Onward(rp, rq')
    BY <1>0, <2>1, <2>2, <2>4, PlaceGood, PlaceOnward
  <2> QED BY <2>3, <2>5, Zenon DEF Onward, st
<1>4. CASE ObserveInBand(s)
  <2> DEFINE u == [st EXCEPT !.run = {}]
             f == Fit(u, s)
  <2>1. rq' = Place(f, s, now)
    BY <1>4 DEF ObserveInBand, st
  <2>2. Good(u) /\ Onward(st, u)
    BY <1>0, RunGood
  <2>3. InBand(u, s)
    BY <1>0, <1>4 DEF ObserveInBand, InBand, Struct, st
  <2> HIDE DEF u
  <2>4. Good(f) /\ f.next <= s /\ s < f.next + Window /\ Onward(u, f)
    BY <1>0, <2>2, <2>3, FitGood, FitOnward
  <2> HIDE DEF f
  <2>5. Good(rq') /\ Onward(f, rq')
    BY <1>0, <2>1, <2>4, PlaceGood, PlaceOnward
  <2>6. Onward(st, rq')
    BY <1>0, <2>2, <2>4, <2>5, OnwardTransitive DEF Good
  <2> QED BY <1>0, <2>5, <2>6, Zenon DEF Onward, st
<1> QED BY <1>1, <1>2, <1>3, <1>4

LEMMA FirstExists ==
    ASSUME NEW batch \in Batch
    PROVE  /\ First(batch) \in batch
           /\ \A y \in batch : First(batch).seq <= y.seq
<1> DEFINE S == {x.seq : x \in batch}
<1>1. S \in SUBSET Nat /\ S # {}
  BY DEF Batch
<1>2. PICK m \in S : \A y \in S : m <= y
  BY <1>1, NatMin
<1>3. \E x \in batch : \A y \in batch : x.seq <= y.seq
  BY <1>2
<1> QED BY <1>3, Zenon DEF First

LEMMA NextIInv == IInv /\ [Next]_vars => IInv'
<1> SUFFICES ASSUME IInv, [Next]_vars PROVE IInv'
  OBVIOUS
<1>0. /\ rq \in Struct /\ Good(rq) /\ FreshEmpty(rq)
      /\ now \in Nat /\ popNow \in Nat \cup {NoTime}
      /\ last \in [seq : Nat, pin : Nat]
  BY DEF IInv, TypeOK, RingInWindow, Good
<1>1. CASE \E s \in Seqs : Observe(s)
  <2>1. PICK s \in Seqs : Observe(s)
    BY <1>1
  <2>2. Good(rq') /\ rq'.started
    BY <2>1, ObserveGood DEF Observe
  <2> QED BY <1>0, <2>1, <2>2 DEF Observe, IInv, TypeOK, RingInWindow, Good, FreshEmpty
<1>2. CASE \E d \in HoldBounds : SetHoldBound(d)
  <2>1. PICK d \in HoldBounds : SetHoldBound(d)
    BY <1>2
  <2>2. PICK b \in Nat : rq' = [rq EXCEPT !.holdBound = b]
    BY <2>1, ReseqAssumption DEF SetHoldBound
  <2>3. rq' \in Struct
    BY <1>0, <2>2 DEF Struct
  <2>4. rq'.ring = rq.ring /\ rq'.next = rq.next /\ rq'.started = rq.started
    BY <1>0, <2>2 DEF Struct
  <2>5. InWindow(rq)' /\ FreshEmpty(rq)'
    BY <1>0, <2>4 DEF Good, InWindow, FreshEmpty
  <2> QED BY <1>0, <2>1, <2>3, <2>5 DEF SetHoldBound, IInv, TypeOK, RingInWindow
<1>3. CASE \E n \in FirstSeqs : RebaselineAt(n)
  <2>1. PICK n \in FirstSeqs : RebaselineAt(n)
    BY <1>3
  <2>2. n \in Nat
    BY ReseqAssumption
  <2>3. Good(rq') /\ rq'.started
    <3>1. rq' = Repin(rq, n)
      BY <2>1 DEF RebaselineAt
    <3>2. Good(rq')
      BY <1>0, <2>2, <3>1, RepinGood
    <3>3. rq'.started
      BY <1>0, <3>1 DEF Repin, Struct
    <3> QED BY <3>2, <3>3
  <2> QED BY <1>0, <2>1, <2>3 DEF RebaselineAt, IInv, TypeOK, RingInWindow, Good, FreshEmpty
<1>4. CASE Close
  <2>1. rq' = [EndHold(rq) EXCEPT !.closed = TRUE]
    BY <1>4 DEF Close
  <2>2. rq' \in Struct
    BY <1>0, <2>1 DEF EndHold, Struct
  <2>3. rq'.ring = rq.ring /\ rq'.next = rq.next /\ rq'.started = rq.started
    BY <1>0, <2>1 DEF EndHold, Struct
  <2>4. InWindow(rq)' /\ FreshEmpty(rq)'
    BY <1>0, <2>3 DEF Good, InWindow, FreshEmpty
  <2> QED BY <1>0, <1>4, <2>2, <2>4 DEF Close, IInv, TypeOK, RingInWindow
<1>5. CASE PopClock
  BY <1>0, <1>5 DEF PopClock, IInv, TypeOK, RingInWindow, InWindow, FreshEmpty
<1>6. CASE Pop
  <2> DEFINE st == Expire(rq, popNow)
             head == Head(st.ready)
             x == First(head)
             rest == IF head = {x} THEN Tail(st.ready) ELSE <<head \ {x}>> \o Tail(st.ready)
  <2>1. popNow \in Nat
    BY <1>0, <1>6 DEF Pop
  <2>2. Good(st) /\ st \in Struct /\ Onward(rq, st)
    BY <1>0, <2>1, ExpireGood, ExpireOnward DEF Good
  <2>3. FreshEmpty(st)
    <3>1. CASE rq.started
      BY <2>2, <3>1, Zenon DEF Onward, FreshEmpty
    <3>2. CASE ~rq.started
      <4>1. Buffered(rq.ring) = {}
        BY <1>0, <3>2 DEF FreshEmpty, Buffered
      <4>2. st = rq \/ st = EndHold(rq)
        BY <4>1 DEF Expire
      <4>3. st.ring = rq.ring
        BY <1>0, <4>2 DEF EndHold, Struct
      <4> QED BY <1>0, <3>2, <4>3 DEF FreshEmpty
    <3> QED BY <3>1, <3>2
  <2> HIDE DEF st
  <2>4. CASE st.ready = <<>>
    <3>1. rq' = st /\ UNCHANGED last /\ UNCHANGED now /\ popNow' = NoTime
      BY <1>6, <2>4 DEF Pop, st
    <3> QED BY <1>0, <2>2, <2>3, <3>1 DEF IInv, TypeOK, RingInWindow, Good
  <2>5. CASE st.ready # <<>>
    <3>1. /\ rq' = [st EXCEPT !.ready = rest] /\ last' = x
          /\ UNCHANGED now /\ popNow' = NoTime
      BY <1>6, <2>5 DEF Pop, st
    <3>2. head \in Batch /\ Tail(st.ready) \in Seq(Batch)
      BY <2>2, <2>5 DEF Struct
    <3>3. x \in head /\ x \in [seq : Nat, pin : Nat]
      BY <3>2, FirstExists DEF Batch
    <3>4. head # {x} => head \ {x} \in Batch
      BY <3>2, <3>3 DEF Batch
    <3> HIDE DEF head, x
    <3>5. rest \in Seq(Batch)
      BY <3>2, <3>4
    <3> HIDE DEF rest
    <3>6. rq' \in Struct
      BY <2>2, <3>1, <3>5 DEF Struct
    <3>7. rq'.ring = st.ring /\ rq'.next = st.next /\ rq'.started = st.started
      BY <2>2, <3>1 DEF Struct
    <3>8. InWindow(rq)' /\ FreshEmpty(rq)'
      BY <2>2, <2>3, <3>7 DEF Good, InWindow, FreshEmpty
    <3> QED BY <1>0, <3>1, <3>3, <3>6, <3>8 DEF IInv, TypeOK, RingInWindow
  <2> QED BY <2>4, <2>5
<1>7. CASE Tick
  BY <1>0, <1>7 DEF Tick, IInv, TypeOK, RingInWindow, InWindow, FreshEmpty
<1>8. CASE UNCHANGED vars
  BY <1>8 DEF vars, IInv, TypeOK, RingInWindow, InWindow, FreshEmpty
<1> QED BY <1>1, <1>2, <1>3, <1>4, <1>5, <1>6, <1>7, <1>8 DEF Next

\* The fields of the resequencer and of the drainer keep their types, whatever
\* arrives, expires, re-pins or closes, for every window and every bound.
THEOREM TypeCorrect == Spec => []TypeOK
<1>1. Init => IInv
  BY InitIInv
<1>2. IInv /\ [Next]_vars => IInv'
  BY NextIInv
<1>3. IInv => TypeOK
  BY DEF IInv
<1> QED BY <1>1, <1>2, <1>3, PTL DEF Spec

\* A buffered datagram always sits in its own cell inside [next, next+window): the
\* ring never holds more than a window and storing never overwrites.
THEOREM BoundedMemory == Spec => []RingInWindow
<1>1. Init => IInv
  BY InitIInv
<1>2. IInv /\ [Next]_vars => IInv'
  BY NextIInv
<1>3. IInv => RingInWindow
  BY DEF IInv
<1> QED BY <1>1, <1>2, <1>3, PTL DEF Spec

\* The release point moves back only when a corroborated discontinuity or a trusted
\* rebaseline re-pins it: no late, suspect or duplicate frame and no expiry does.
THEOREM ReleasePointMonotone == Spec => NextMonotone
<1> DEFINE Onwards == rq.started => rq'.next >= rq.next \/ rq'.pins > rq.pins
<1>1. IInv /\ [Next]_vars => [Onwards]_vars
  <2> SUFFICES ASSUME IInv, Next, rq.started
               PROVE  rq'.next >= rq.next \/ rq'.pins > rq.pins
    BY DEF Onwards
  <2>0. /\ rq \in Struct /\ Good(rq) /\ rq.next \in Nat /\ rq.pins \in Nat
        /\ popNow \in Nat \cup {NoTime}
    BY DEF IInv, TypeOK, RingInWindow, Good, Struct
  <2>1. CASE \E s \in Seqs : Observe(s)
    <3>1. PICK s \in Seqs : Observe(s)
      BY <2>1
    <3> DEFINE st == Arrived(s)
    <3>2. Good(st) /\ Onward(rq, st)
      BY ArrivedGood DEF Pinned
    <3>3. rq'.pins = st.pins + 1 \/ Onward(st, rq')
      BY <3>1, ObserveGood DEF Observe
    <3>4. rq' \in Struct
      BY <3>1, ObserveGood DEF Observe, Good
    <3> HIDE DEF st
    <3>5. rq.pins = st.pins /\ rq.next <= st.next
      BY <3>2, Zenon DEF Onward
    <3>6. CASE rq'.pins = st.pins + 1
      BY <2>0, <3>5, <3>6
    <3>7. CASE Onward(st, rq')
      <4>1. st.next <= rq'.next /\ st.next \in Nat /\ rq'.next \in Nat
        BY <3>2, <3>4, <3>7 DEF Onward, Good, Struct
      <4> QED BY <2>0, <3>5, <4>1
    <3> QED BY <3>3, <3>6, <3>7
  <2>2. CASE \E d \in HoldBounds : SetHoldBound(d)
    BY <2>0, <2>2 DEF SetHoldBound, Struct
  <2>3. CASE \E n \in FirstSeqs : RebaselineAt(n)
    BY <2>0, <2>3 DEF RebaselineAt, Repin, Struct
  <2>4. CASE Close
    BY <2>0, <2>4 DEF Close, EndHold, Struct
  <2>5. CASE Pop
    <3> DEFINE st == Expire(rq, popNow)
    <3>1. popNow \in Nat
      BY <2>0, <2>5 DEF Pop
    <3>2. st \in Struct /\ Onward(rq, st)
      BY <2>0, <3>1, ExpireGood, ExpireOnward DEF Good
    <3>3. \E r : rq' = st \/ rq' = [st EXCEPT !.ready = r]
      BY <2>5 DEF Pop
    <3> HIDE DEF st
    <3>4. rq'.next = st.next
      BY <3>2, <3>3 DEF Struct
    <3>5. rq.next <= st.next /\ st.next \in Nat
      BY <3>2 DEF Onward, Struct
    <3> QED BY <2>0, <3>4, <3>5
  <2>6. CASE PopClock \/ Tick
    BY <2>0, <2>6 DEF PopClock, Tick
  <2> QED BY <2>1, <2>2, <2>3, <2>4, <2>5, <2>6 DEF Next
<1>2. Init => IInv
  BY InitIInv
<1>3. IInv /\ [Next]_vars => IInv'
  BY NextIInv
<1>4. Spec => [][Onwards]_vars
  BY <1>1, <1>2, <1>3, PTL DEF Spec
<1> QED BY <1>4 DEF NextMonotone

=============================================================================
