--------------------------- MODULE PathMTUProofs ---------------------------
(***************************************************************************)
(* What the discovery goroutine is told is not lost, the link is widened   *)
(* only to what has been asked for during a whole dwell, and a search ends *)
(* with the largest size that fits, for every range of sizes, every number *)
(* of confirmations and every dwell.                                       *)
(***************************************************************************)
EXTENDS PathMTU, TLAPS

----------------------------------------------------------------------------
(* Nothing is stranded.                                                    *)

\* The inductive form: calling counts, so that a callback that has been read keeps
\* it positive.
Handed == calling \in Nat /\ NothingStranded

\* Whatever a probe's verdict makes of the search, a closed path is handed no
\* request, and the mark of a roam stays.
LEMMA VerdictHolds ==
  ASSUME NEW s, NEW echoed, confirmCandidate(s, echoed), UNCHANGED closed
  PROVE  UNCHANGED reprobePending /\ (closed => ~queued')
<1>1. ASSUME NEW t, enqueuePMTUProbe(t) PROVE closed => ~queued'
  BY <1>1 DEF enqueuePMTUProbe, Quiet
<1>2. ASSUME NEW lo, NEW hi, narrow(lo, hi) PROVE UNCHANGED reprobePending /\ (closed => ~queued')
  BY <1>1, <1>2 DEF narrow, converge, Quiet, machine
<1>3. ASSUME NEW t, NEW b, settle(t, b) PROVE UNCHANGED reprobePending /\ (closed => ~queued')
  BY <1>2, <1>3 DEF settle
<1>4. ASSUME NEW t, retry(t) PROVE UNCHANGED reprobePending /\ (closed => ~queued')
  BY <1>1, <1>3, <1>4 DEF retry, machine
<1> QED
  BY <1>1, <1>3, <1>4, Zenon DEF confirmCandidate, machine

LEMMA HandedStep == Handed /\ [Next]_vars => Handed'
<1> SUFFICES ASSUME Handed, [Next]_vars PROVE Handed'
  OBVIOUS
<1> USE DEF Handed, NothingStranded
<1>1. CASE DiscoveryTick
  <2>1. UNCHANGED <<calling, closed>>
    BY <1>1 DEF DiscoveryTick, world
  <2>2. CASE shouldSearch
    <3>1. ~roamed' /\ (closed => ~queued')
      BY <1>1, <2>2 DEF DiscoveryTick, enqueuePMTUProbe, Quiet
    <3> QED
      BY <2>1, <3>1
  <2>3. CASE ~shouldSearch
    <3>1. UNCHANGED <<roamed, queued>> /\ (reprobePending => reprobePending')
      BY <1>1, <2>3 DEF DiscoveryTick, history, reprobe
    <3> QED
      BY <2>1, <3>1
  <2> QED
    BY <2>2, <2>3
<1>2. CASE AwaitEcho
  BY <1>2, VerdictHolds DEF AwaitEcho, world, history
<1>3. CASE AwaitTimeout
  BY <1>3, VerdictHolds DEF AwaitTimeout, world
<1>4. CASE TooLarge
  BY <1>4, VerdictHolds DEF TooLarge, world, history
<1>5. CASE PMTUSlot
  BY <1>5 DEF PMTUSlot, world, machine, history
<1>6. CASE SendFails
  BY <1>6 DEF SendFails, abort, Quiet, world, machine, history
<1>7. CASE CloseGeneratedProbes
  BY <1>7 DEF CloseGeneratedProbes, abort, Quiet, machine, history
<1>8. CASE Roam
  BY <1>8 DEF Roam, machine, probe
<1>9. CASE NotifyRoam
  BY <1>9 DEF NotifyRoam, world, probe, history
<1>10. CASE OrdinarySlot \/ Resize \/ Elapse \/ Reroute \/ Flap \/ UNCHANGED vars
  BY <1>10 DEF OrdinarySlot, Resize, Elapse, Reroute, Flap, vars, world, machine, probe, history
<1>11. ASSUME NEW e, NotifyEcho(e) \/ Lose(e) PROVE Handed'
  BY <1>11 DEF NotifyEcho, Lose, world, machine, history
<1> QED
  BY <1>1, <1>2, <1>3, <1>4, <1>5, <1>6, <1>7, <1>8, <1>9, <1>10, <1>11 DEF Next, Steps

\* A roam during a search outlives it, and a path that is no longer probed holds no
\* request (NotifyRoam, enqueuePMTUProbe, closeGeneratedProbes).
THEOREM NothingIsStranded == Spec => []NothingStranded
<1>1. Init => Handed
  BY DEF Init, Boot, Handed, NothingStranded
<1>2. Handed => NothingStranded
  BY DEF Handed
<1> QED
  BY <1>1, <1>2, HandedStep, PTL DEF Spec

----------------------------------------------------------------------------
(* The link is widened after the dwell.                                    *)

Fields == {"at", "lo", "hi", "consecutive", "rejections", "attempt"}

Probing(s) ==
  DOMAIN s = Fields /\ s.at \in {"candidate", "control"} /\ s.lo \in Int /\ s.hi \in Int

\* A probe that waits belongs to a search, and every size is a number.
Measures ==
  /\ applied \in Int /\ discovered \in Int
  /\ Probing(search) \/ search = Idle
  /\ queued \/ waited # NotWaiting => Probing(search)

\* The resizer's clocks: a pending target is the one the last recompute asked for,
\* and has been asked for at least as long as it is pending.
Held ==
  /\ pendingAge \in 0..Dwell /\ steady \in 0..Dwell
  /\ pending = 0 => pendingAge = 0
  /\ pending # 0 => wanted = pending /\ steady >= pendingAge

\* The verdict of a probe leaves a search over numbers, or none.
LEMMA VerdictMeasures ==
  ASSUME NEW s, Probing(s), NEW echoed \in BOOLEAN, discovered \in Int, confirmCandidate(s, echoed)
  PROVE  /\ discovered' \in Int
         /\ Probing(search') \/ search' = Idle
         /\ waited' = NotWaiting
         /\ queued' => Probing(search')
<1> DEFINE Good == /\ discovered' \in Int /\ (Probing(search') \/ search' = Idle)
                   /\ waited' = NotWaiting /\ (queued' => Probing(search'))
<1>1. ASSUME NEW t, Probing(t), enqueuePMTUProbe(t), UNCHANGED machine PROVE Good
  BY <1>1 DEF enqueuePMTUProbe, Quiet, machine
<1>2. ASSUME NEW lo \in Int, NEW hi \in Int, narrow(lo, hi) PROVE Good
  <2>1. Probing(Candidate(lo, hi))
    BY DEF Candidate, Probing, Fields
  <2>2. CASE lo < hi
    BY <1>1, <1>2, <2>1, <2>2 DEF narrow
  <2>3. CASE ~(lo < hi)
    BY <1>2, <2>3 DEF narrow, converge, Quiet
  <2> QED
    BY <2>2, <2>3
<1>3. ASSUME NEW t, Probing(t), NEW b \in BOOLEAN, settle(t, b) PROVE Good
  <2>1. t.lo \in Int /\ t.hi \in Int /\ Mid(t) \in Int /\ Mid(t) - 1 \in Int
    BY <1>3 DEF Probing, Mid
  <2> QED
    BY <1>2, <1>3, <2>1 DEF settle
<1>4. ASSUME NEW t, Probing(t), retry(t) PROVE Good
  <2>1. Probing([t EXCEPT !.at = "candidate", !.attempt = @ + 1])
    BY <1>4 DEF Probing, Fields
  <2> QED
    BY <1>1, <1>3, <1>4, <2>1 DEF retry
<1>5. /\ Probing([s EXCEPT !.consecutive = @ + 1])
      /\ Probing([s EXCEPT !.at = "control", !.consecutive = 0])
      /\ Probing([s EXCEPT !.rejections = @ + 1])
  BY DEF Probing, Fields
<1> HIDE DEF Good
<1>6. ASSUME s.at = "candidate" /\ echoed PROVE Good
  BY <1>3, <1>4, <1>5, <1>6 DEF confirmCandidate
<1>7. ASSUME s.at = "candidate" /\ ~echoed PROVE Good
  BY <1>1, <1>5, <1>7 DEF confirmCandidate
<1>8. ASSUME s.at = "control" /\ echoed PROVE Good
  BY <1>3, <1>4, <1>5, <1>8 DEF confirmCandidate
<1>9. ASSUME s.at = "control" /\ ~echoed PROVE Good
  BY <1>4, <1>9 DEF confirmCandidate
<1>10. s.at \in {"candidate", "control"}
  BY DEF Probing
<1>11. Good
  BY <1>6, <1>7, <1>8, <1>9, <1>10
<1> QED
  BY <1>11 DEF Good

\* The smallest of one or two numbers is a number.
LEMMA TargetIsNumber ==
  ASSUME discovered \in Int, sampleMTU # {}
  PROVE  minInnerMTU \in Int
<1>1. PICK a \in Int, b \in Int : {InnerMTU(s) : s \in sampleMTU} = {a, b}
  <2>1. PICK x \in Int, y \in Int : sampleMTU = {x, y}
    BY MTUAssumption DEF sampleMTU, PathMTUOrZero
  <2>2. InnerMTU(x) \in Int /\ InnerMTU(y) \in Int
    BY <2>1, MTUAssumption DEF InnerMTU
  <2> QED
    BY <2>1, <2>2
<1>2. \E m \in {a, b} : \A n \in {a, b} : m <= n
  <2>1. CASE a <= b
    BY <2>1
  <2>2. CASE b <= a
    BY <2>2
  <2> QED
    BY <2>1, <2>2
<1> QED
  BY <1>1, <1>2 DEF minInnerMTU, Min

LEMMA InitMeasures == Init => Measures
<1> SUFFICES ASSUME Init PROVE Measures
  OBVIOUS
<1>1. Min({DefaultMTU, PinnedMTU}) \in Int
  <2>1. DefaultMTU \in Int /\ PinnedMTU \in Int
    BY MTUAssumption
  <2>2. \E m \in {DefaultMTU, PinnedMTU} : \A n \in {DefaultMTU, PinnedMTU} : m <= n
    BY <2>1
  <2> QED
    BY <2>1, <2>2 DEF Min
<1> QED
  BY <1>1, MTUAssumption DEF Init, Measures, bootMTU, InnerMTU

LEMMA MeasuresStep == Measures /\ [Next]_vars => Measures'
<1> SUFFICES ASSUME Measures, [Next]_vars PROVE Measures'
  OBVIOUS
<1> USE DEF Measures
<1>1. CASE DiscoveryTick
  <2>1. UNCHANGED <<applied, discovered>>
    BY <1>1 DEF DiscoveryTick, resizer
  <2>2. CASE shouldSearch
    <3>1. Probing(Candidate(Floor, DefaultMTU))
      BY MTUAssumption DEF Candidate, Probing, Fields
    <3> QED
      BY <1>1, <2>1, <2>2, <3>1 DEF DiscoveryTick, enqueuePMTUProbe, Quiet
  <2>3. CASE ~shouldSearch
    BY <1>1, <2>1, <2>3 DEF DiscoveryTick
  <2> QED
    BY <2>2, <2>3
<1>2. ASSUME NEW echoed \in BOOLEAN, Probing(search), confirmCandidate(search, echoed), UNCHANGED applied
      PROVE  Measures'
  BY <1>2, VerdictMeasures
<1>3. CASE AwaitEcho
  BY <1>2, <1>3 DEF AwaitEcho, resizer
<1>4. CASE AwaitTimeout
  <2>1. waited # NotWaiting
    BY <1>4, MTUAssumption DEF AwaitTimeout, NotWaiting
  <2> QED
    BY <1>2, <1>4, <2>1 DEF AwaitTimeout, resizer
<1>5. CASE TooLarge
  BY <1>2, <1>5 DEF TooLarge, Padded, resizer
<1>6. CASE PMTUSlot
  BY <1>6 DEF PMTUSlot, Padded, machine, resizer
<1>7. CASE SendFails
  BY <1>7 DEF SendFails, abort, Quiet, machine, resizer
<1>8. CASE CloseGeneratedProbes
  BY <1>8 DEF CloseGeneratedProbes, abort, Quiet, machine, resizer
<1>9. CASE Resize
  <2>1. UNCHANGED <<machine, probe>> /\ (applied' = applied \/ (applied' = minInnerMTU /\ sampleMTU # {}))
    BY <1>9 DEF Resize, settled, apply
  <2>2. applied' \in Int
    BY <2>1, TargetIsNumber
  <2> QED
    BY <2>1, <2>2 DEF machine, probe
<1>10. CASE Elapse
  BY <1>10 DEF Elapse
<1>11. CASE OrdinarySlot \/ Roam \/ NotifyRoam \/ Reroute \/ Flap \/ UNCHANGED vars
  BY <1>11 DEF OrdinarySlot, Roam, NotifyRoam, Reroute, Flap, vars, machine, probe, resizer
<1>12. ASSUME NEW e, NotifyEcho(e) \/ Lose(e) PROVE Measures'
  BY <1>12 DEF NotifyEcho, Lose, machine, resizer
<1> QED
  BY <1>1, <1>3, <1>4, <1>5, <1>6, <1>7, <1>8, <1>9, <1>10, <1>11, <1>12 DEF Next, Steps

\* Only Resize and Elapse touch the resizer.
LEMMA OnlyResize == [Next]_vars => Resize \/ Elapse \/ UNCHANGED resizer
<1> SUFFICES ASSUME [Next]_vars PROVE Resize \/ Elapse \/ UNCHANGED resizer
  OBVIOUS
<1>1. ASSUME NEW e, NotifyEcho(e) \/ Lose(e) PROVE UNCHANGED resizer
  BY <1>1 DEF NotifyEcho, Lose
<1> QED
  BY <1>1 DEF Next, Steps, DiscoveryTick, AwaitEcho, AwaitTimeout, OrdinarySlot, PMTUSlot, TooLarge,
              NotifyRoam, SendFails, CloseGeneratedProbes, Roam, Reroute, Flap, vars

LEMMA HeldStep == Measures /\ Held /\ [Next]_vars
                    => Held' /\ (applied' > applied => wanted = applied' /\ steady >= Dwell)
<1> SUFFICES ASSUME Measures, Held, [Next]_vars
             PROVE  Held' /\ (applied' > applied => wanted = applied' /\ steady >= Dwell)
  OBVIOUS
<1> USE MTUAssumption
<1>0. Dwell \in Nat /\ Dwell > 0 /\ applied \in Int
  BY DEF Measures
<1>1. CASE UNCHANGED resizer
  BY <1>0, <1>1 DEF resizer, Held
<1>2. CASE Elapse
  <2>1. UNCHANGED <<applied, pending, wanted>>
    BY <1>2 DEF Elapse
  <2>2. /\ pendingAge' = IF pending # 0 /\ pendingAge < Dwell THEN pendingAge + 1 ELSE pendingAge
        /\ steady' = IF steady < Dwell THEN steady + 1 ELSE steady
    BY <1>2 DEF Elapse
  <2> QED
    BY <1>0, <2>1, <2>2 DEF Held
<1>3. CASE Resize
  <2>1. CASE settled
    <3>1. pending' = 0 /\ pendingAge' = 0 /\ applied' = applied
      BY <2>1 DEF settled
    <3>2. steady' \in 0..Dwell
      BY <1>0, <1>3 DEF Resize, Held
    <3> QED
      BY <1>0, <3>1, <3>2 DEF Held
  <2>2. CASE ~(sampleMTU = {} \/ minInnerMTU = applied)
    <3> DEFINE target == minInnerMTU
               held == IF pending = target THEN pendingAge ELSE 0
    <3>1. /\ target \in Int
          /\ wanted' = target /\ steady' = IF target = wanted THEN steady ELSE 0
      BY <1>3, <2>2, TargetIsNumber DEF Resize, Measures
    <3>2. IF target > applied /\ held < Dwell
          THEN pending' = target /\ pendingAge' = held /\ applied' = applied
          ELSE apply(target)
      BY <1>3, <2>2 DEF Resize
    <3> HIDE DEF target
    <3>3. CASE target > applied /\ held < Dwell
      BY <1>0, <3>1, <3>2, <3>3 DEF Held
    <3>4. CASE ~(target > applied /\ held < Dwell)
      <4>1. pending' = 0 /\ pendingAge' = 0 /\ (applied' = target \/ applied' = applied)
        BY <3>2, <3>4 DEF apply
      <4> QED
        BY <1>0, <3>1, <3>4, <4>1 DEF Held
    <3> QED
      BY <3>3, <3>4
  <2> QED
    BY <1>3, <2>1, <2>2 DEF Resize
<1> QED
  BY <1>1, <1>2, <1>3, OnlyResize

\* The link is only widened to a target that every recompute of the last dwell has
\* asked for, through flapping paths and failed netlink calls (recompute).
THEOREM WidenedAfterDwell == Spec => LoosensAfterDwell
<1>1. Init => Measures
  BY InitMeasures
<1>2. Init => Held
  BY MTUAssumption DEF Init, Held
<1>3. Measures /\ Held /\ [Next]_vars => [applied' > applied => wanted = applied' /\ steady >= Dwell]_vars
  BY HeldStep
<1> QED
  BY <1>1, <1>2, <1>3, MeasuresStep, HeldStep, PTL DEF Spec, LoosensAfterDwell

----------------------------------------------------------------------------
(* The search measures what the way carries.                               *)

\* The search s, n probes of a size the way carries having been missed since it
\* began: its lower end fits, and the largest size that fits is still in reach,
\* unless loss alone could have rejected it.  For a candidate that fits, every miss
\* counts in n; a control probe follows the n-th.
Narrows(s, n) ==
  /\ s.lo \in Sizes /\ s.hi \in Sizes /\ s.lo < s.hi
  /\ s.consecutive \in 0..(Confirmations - 1) /\ s.rejections \in Nat /\ s.attempt \in Nat
  /\ s.lo <= Fits /\ (n < Rejections => Fits <= s.hi)
  /\ Mid(s) <= Fits =>
       IF s.at = "candidate"
       THEN s.rejections <= n /\ s.attempt <= n * Confirmations + s.consecutive
       ELSE s.rejections < n /\ s.attempt < n * Confirmations + s.consecutive

\* The inductive form of MeasuredRight: a probe that is waited for was not too large
\* for the socket, and its echo shows that the way carries it.
Searches ==
  /\ carried \in Sizes /\ lost \in Nat
  /\ search # Idle => state = Searching
  /\ search # Idle /\ ~moved => Narrows(search, lost)
  /\ waited # NotWaiting /\ ~moved =>
       /\ Size(search) <= LocalMTU
       /\ released \/ "awaited" \in flying => Size(search) <= carried
  /\ MeasuredRight

\* Fits is the smallest of its three bounds.
LEMMA FitsBounds ==
  ASSUME carried \in Sizes
  PROVE  /\ Fits \in Sizes /\ Fits <= carried /\ Fits <= LocalMTU
         /\ \A n \in Int : n <= carried /\ n <= LocalMTU /\ n <= DefaultMTU => n <= Fits
<1>1. carried \in Int /\ LocalMTU \in Int /\ DefaultMTU \in Int /\ Floor \in Int
  BY MTUAssumption DEF Sizes
<1>2. \E m \in {carried, LocalMTU, DefaultMTU} : \A n \in {carried, LocalMTU, DefaultMTU} : m <= n
  BY <1>1
<1>3. Fits \in {carried, LocalMTU, DefaultMTU} /\ \A n \in {carried, LocalMTU, DefaultMTU} : Fits <= n
  BY <1>2 DEF Fits, Min
<1> QED
  BY <1>1, <1>3, MTUAssumption DEF Sizes

\* A search halves its interval.
LEMMA MidBetween ==
  ASSUME NEW s, s.lo \in Int, s.hi \in Int, s.lo < s.hi
  PROVE  Mid(s) \in Int /\ s.lo < Mid(s) /\ Mid(s) <= s.hi
BY DEF Mid

\* Fewer misses than it takes to reject leave an attempt for every confirmation.
LEMMA AttemptsLeft ==
  ASSUME NEW n \in Nat, n < Rejections
  PROVE  n * Confirmations \in Nat /\ n * Confirmations + Confirmations <= Attempts
<1>1. /\ Confirmations \in Nat /\ Rejections \in Nat /\ Attempts \in Nat
      /\ Rejections * Confirmations <= Attempts
  BY MTUAssumption
<1>2. (n + 1) * Confirmations <= Rejections * Confirmations
  BY <1>1
<1>3. (n + 1) * Confirmations = n * Confirmations + Confirmations /\ n * Confirmations \in Nat
  BY <1>1
<1> QED
  BY <1>1, <1>2, <1>3

\* What is true of the search when a probe's verdict has been drawn.
Drawn(n) ==
  \/ search' = Idle /\ UNCHANGED machine
  \/ Probing(search') /\ Narrows(search', n) /\ UNCHANGED machine
  \/ /\ search' = Idle /\ state' = Converged
     /\ discovered' <= Fits /\ (n < Rejections => discovered' = Fits)

\* Where confirmCandidate may leave the interval: both ends are right.
LEMMA NarrowDrawn ==
  ASSUME carried \in Sizes, NEW n \in Nat, NEW lo \in Sizes, NEW hi \in Sizes, lo <= hi,
         lo <= Fits, n < Rejections => Fits <= hi, narrow(lo, hi)
  PROVE  Drawn(n)
<1> USE MTUAssumption
<1>0. Fits \in Int /\ lo \in Int /\ hi \in Int
  BY FitsBounds DEF Sizes
<1>1. CASE lo < hi
  <2>1. Probing(Candidate(lo, hi))
    BY <1>0 DEF Candidate, Probing, Fields
  <2>2. Narrows(Candidate(lo, hi), n)
    <3>1. n * Confirmations \in Nat /\ Confirmations > 0 /\ Confirmations \in Nat
      OBVIOUS
    <3> QED
      BY <1>0, <1>1, <3>1 DEF Narrows, Candidate
  <2> QED
    BY <1>1, <2>1, <2>2 DEF narrow, enqueuePMTUProbe, Quiet, Drawn
<1>2. CASE ~(lo < hi)
  BY <1>0, <1>2 DEF narrow, converge, Quiet, Drawn
<1> QED
  BY <1>1, <1>2

\* The interval and the counters of a search, whatever its probe was.
Interval(s, n) ==
  /\ Probing(s) /\ s.lo \in Sizes /\ s.hi \in Sizes /\ s.lo < s.hi
  /\ s.consecutive \in 0..(Confirmations - 1) /\ s.rejections \in Nat /\ s.attempt \in Nat
  /\ s.lo <= Fits /\ (n < Rejections => Fits <= s.hi)

\* A size is accepted when it fits, and rejected when it does not, or when there
\* were enough losses.
LEMMA SettleDrawn ==
  ASSUME carried \in Sizes, NEW n \in Nat, NEW s, NEW b \in BOOLEAN,
         Probing(s), s.lo \in Sizes, s.hi \in Sizes, s.lo < s.hi,
         s.lo <= Fits, n < Rejections => Fits <= s.hi,
         b => Mid(s) <= Fits, ~b /\ n < Rejections => Mid(s) > Fits, settle(s, b)
  PROVE  Drawn(n)
<1>1. s.lo \in Int /\ s.hi \in Int /\ Fits \in Int /\ Floor \in Int /\ DefaultMTU \in Int
  BY FitsBounds, MTUAssumption DEF Sizes
<1>2. Mid(s) \in Int /\ s.lo < Mid(s) /\ Mid(s) <= s.hi
  BY <1>1, MidBetween
<1>3. Mid(s) \in Sizes /\ Mid(s) - 1 \in Sizes
  BY <1>1, <1>2 DEF Sizes
<1>4. CASE b
  <2>1. narrow(Mid(s), s.hi)
    BY <1>4 DEF settle
  <2> QED
    BY <1>2, <1>3, <1>4, <2>1, NarrowDrawn
<1>5. CASE ~b
  <2>1. narrow(s.lo, Mid(s) - 1)
    BY <1>5 DEF settle
  <2>2. s.lo <= Mid(s) - 1 /\ (n < Rejections => Fits <= Mid(s) - 1)
    BY <1>1, <1>2, <1>5
  <2> QED
    BY <1>3, <2>1, <2>2, NarrowDrawn
<1> QED
  BY <1>4, <1>5

\* The attempts run out on a size that fits only when there were enough losses.
LEMMA RetryDrawn ==
  ASSUME carried \in Sizes, NEW n \in Nat, NEW s, Interval(s, n), retry(s),
         Mid(s) <= Fits => s.rejections <= n /\ s.attempt < n * Confirmations + s.consecutive
  PROVE  Drawn(n)
<1>1. CASE s.attempt + 1 < Attempts
  <2> DEFINE t == [s EXCEPT !.at = "candidate", !.attempt = @ + 1]
  <2>1. Probing(t)
    BY DEF Interval, Probing, Fields
  <2>2. /\ t.at = "candidate" /\ t.lo = s.lo /\ t.hi = s.hi /\ t.consecutive = s.consecutive
        /\ t.rejections = s.rejections /\ t.attempt = s.attempt + 1
    BY DEF Interval, Probing, Fields
  <2>3. Mid(t) = Mid(s)
    BY <2>2 DEF Mid
  <2>4. enqueuePMTUProbe(t) /\ UNCHANGED machine
    BY <1>1 DEF retry
  <2> HIDE DEF t
  <2>5. n * Confirmations \in Nat
    BY MTUAssumption
  <2>6. Narrows(t, n)
    BY <2>2, <2>3, <2>5, MTUAssumption DEF Narrows, Interval
  <2> QED
    BY <2>1, <2>4, <2>6 DEF enqueuePMTUProbe, Quiet, Drawn
<1>2. CASE ~(s.attempt + 1 < Attempts)
  <2>1. settle(s, FALSE)
    BY <1>2 DEF retry
  <2>2. ASSUME n < Rejections, Mid(s) <= Fits PROVE FALSE
    BY <1>2, <2>2, AttemptsLeft, MTUAssumption DEF Interval
  <2>3. Mid(s) \in Int /\ Fits \in Int
    BY FitsBounds, MidBetween, MTUAssumption DEF Sizes, Interval
  <2>4. n < Rejections => Mid(s) > Fits
    BY <2>2, <2>3
  <2> QED
    BY <2>1, <2>4, SettleDrawn DEF Interval
<1> QED
  BY <1>1, <1>2

\* The verdict of a probe keeps the search right: the probe was echoed only if its
\* size fits, and missed though it fits only if the miss is counted.
LEMMA VerdictDrawn ==
  ASSUME carried \in Sizes, NEW m \in Nat, NEW n \in Nat, m <= n,
         NEW s, Probing(s), Narrows(s, m), NEW echoed \in BOOLEAN, confirmCandidate(s, echoed),
         echoed => n = m /\ Size(s) <= Fits,
         ~echoed /\ Size(s) <= Fits => n = m + 1
  PROVE  Drawn(n)
<1> USE MTUAssumption
<1>0. /\ m * Confirmations \in Nat /\ n * Confirmations \in Nat
      /\ m * Confirmations <= n * Confirmations
      /\ n = m + 1 => n * Confirmations = m * Confirmations + Confirmations
  OBVIOUS
<1>1. Interval(s, n)
  BY DEF Interval, Narrows
<1>2. Fits \in Int /\ Mid(s) \in Int
  BY FitsBounds, MidBetween DEF Narrows, Sizes
<1>3. CASE s.at = "candidate" /\ echoed
  <2>1. Mid(s) <= Fits
    BY <1>3 DEF Size
  <2>2. CASE s.consecutive + 1 >= Confirmations
    <3>1. settle(s, TRUE)
      BY <1>3, <2>2 DEF confirmCandidate
    <3> QED
      BY <1>1, <2>1, <3>1, SettleDrawn DEF Interval
  <2>3. CASE ~(s.consecutive + 1 >= Confirmations)
    <3> DEFINE t == [s EXCEPT !.consecutive = @ + 1]
    <3>1. retry(t)
      BY <1>3, <2>3 DEF confirmCandidate
    <3>2. /\ Probing(t) /\ t.at = s.at /\ t.lo = s.lo /\ t.hi = s.hi
          /\ t.consecutive = s.consecutive + 1
          /\ t.rejections = s.rejections /\ t.attempt = s.attempt
      BY DEF Probing, Fields
    <3>3. Mid(t) = Mid(s)
      BY <3>2 DEF Mid
    <3> HIDE DEF t
    <3>4. Interval(t, n)
      BY <1>1, <2>3, <3>2 DEF Interval
    <3>5. t.rejections <= n /\ t.attempt < n * Confirmations + t.consecutive
      BY <1>0, <1>3, <2>1, <3>2 DEF Narrows
    <3> QED
      BY <3>1, <3>3, <3>4, <3>5, RetryDrawn
  <2> QED
    BY <2>2, <2>3
<1>4. CASE s.at = "candidate" /\ ~echoed
  <2> DEFINE t == [s EXCEPT !.at = "control", !.consecutive = 0]
  <2>1. enqueuePMTUProbe(t) /\ UNCHANGED machine
    BY <1>4 DEF confirmCandidate
  <2>2. /\ Probing(t) /\ t.at = "control" /\ t.lo = s.lo /\ t.hi = s.hi /\ t.consecutive = 0
        /\ t.rejections = s.rejections /\ t.attempt = s.attempt
    BY DEF Probing, Fields
  <2>3. Mid(t) = Mid(s)
    BY <2>2 DEF Mid
  <2> HIDE DEF t
  <2>4. Mid(s) <= Fits => s.rejections < n /\ s.attempt < n * Confirmations
    BY <1>0, <1>4 DEF Narrows, Size
  <2>5. Narrows(t, n)
    BY <1>0, <1>1, <2>2, <2>3, <2>4 DEF Narrows, Interval
  <2> QED
    BY <2>1, <2>2, <2>5 DEF enqueuePMTUProbe, Quiet, Drawn
<1>5. CASE s.at = "control"
  <2>1. Mid(s) <= Fits => s.rejections < n /\ s.attempt < n * Confirmations + s.consecutive
    BY <1>0, <1>5 DEF Narrows
  <2>2. CASE ~echoed
    <3>1. retry(s)
      BY <1>5, <2>2 DEF confirmCandidate
    <3> QED
      BY <1>1, <2>1, <3>1, RetryDrawn DEF Interval
  <2>3. CASE echoed /\ rejected(s)
    <3>1. settle(s, FALSE)
      BY <1>5, <2>3 DEF confirmCandidate
    <3>2. n < Rejections => Mid(s) > Fits
      BY <1>1, <1>2, <2>1, <2>3 DEF rejected, Interval
    <3> QED
      BY <1>1, <3>1, <3>2, SettleDrawn DEF Interval
  <2>4. CASE echoed /\ ~rejected(s)
    <3> DEFINE t == [s EXCEPT !.rejections = @ + 1]
    <3>1. retry(t)
      BY <1>5, <2>4 DEF confirmCandidate
    <3>2. /\ Probing(t) /\ t.lo = s.lo /\ t.hi = s.hi /\ t.consecutive = s.consecutive
          /\ t.rejections = s.rejections + 1 /\ t.attempt = s.attempt
      BY DEF Probing, Fields
    <3>3. Mid(t) = Mid(s)
      BY <3>2 DEF Mid
    <3> HIDE DEF t
    <3>4. Interval(t, n)
      BY <1>1, <3>2 DEF Interval
    <3>5. Mid(t) <= Fits => t.rejections <= n /\ t.attempt < n * Confirmations + t.consecutive
      BY <1>1, <2>1, <3>2, <3>3 DEF Interval
    <3> QED
      BY <3>1, <3>4, <3>5, RetryDrawn
  <2> QED
    BY <2>2, <2>3, <2>4
<1> QED
  BY <1>3, <1>4, <1>5 DEF Probing

\* A verdict drawn on the goroutine's search keeps the invariant.
LEMMA VerdictSearches ==
  ASSUME Measures, Searches, search # Idle, NEW echoed \in BOOLEAN, confirmCandidate(search, echoed),
         UNCHANGED <<carried, moved>>, lost' \in Nat, lost <= lost',
         ~moved /\ echoed => lost' = lost /\ Size(search) <= Fits,
         ~moved /\ ~echoed /\ Size(search) <= Fits => lost' = lost + 1
  PROVE  Searches'
<1>1. Probing(search) /\ waited' = NotWaiting /\ (Probing(search') \/ search' = Idle)
  BY VerdictMeasures DEF Measures
<1>2. search' # Idle => state' = Searching
  <2>1. ASSUME NEW lo, NEW hi, narrow(lo, hi) PROVE search' # Idle => UNCHANGED state
    BY <2>1 DEF narrow, converge, Quiet, machine
  <2>2. ASSUME NEW s, retry(s) \/ (\E b \in BOOLEAN : settle(s, b)) PROVE search' # Idle => UNCHANGED state
    BY <2>1, <2>2 DEF retry, settle, machine
  <2>3. search' # Idle => UNCHANGED state
    BY <2>2, Zenon DEF confirmCandidate, machine
  <2> QED
    BY <2>3 DEF Searches
<1>3. UNCHANGED Fits
  BY DEF Fits
<1>4. ASSUME ~moved PROVE Drawn(lost')
  BY <1>1, <1>4, VerdictDrawn DEF Searches
<1>5. ASSUME ~moved, search' # Idle PROVE Narrows(search, lost)'
  <2>1. Narrows(search', lost')
    BY <1>4, <1>5 DEF Drawn
  <2> QED
    BY <1>3, <2>1 DEF Narrows, Mid
<1>6. MeasuredRight'
  <2>1. state = Searching
    BY DEF Searches
  <2>2. ASSUME ~moved, state' = Converged PROVE discovered' <= Fits /\ (lost' < Rejections => discovered' = Fits)
    BY <1>4, <2>1, <2>2 DEF Drawn, machine, Searching, Converged
  <2> QED
    BY <1>3, <2>2 DEF MeasuredRight
<1> QED
  BY <1>1, <1>2, <1>5, <1>6 DEF Searches

LEMMA SearchesStep == Measures /\ Searches /\ [Next]_vars => Searches'
<1> SUFFICES ASSUME Measures, Searches, [Next]_vars PROVE Searches'
  OBVIOUS
<1> USE MTUAssumption
<1>0. /\ Fits \in Int /\ Floor <= Fits /\ Fits <= carried /\ Fits <= LocalMTU
      /\ \A n \in Int : n <= carried /\ n <= LocalMTU /\ n <= DefaultMTU => n <= Fits
      /\ carried \in Int /\ LocalMTU \in Int /\ DefaultMTU \in Int /\ Floor \in Int
  BY FitsBounds DEF Searches, Sizes
<1>1. ASSUME UNCHANGED carried PROVE UNCHANGED Fits
  BY <1>1 DEF Fits
<1>2. ASSUME NEW s, ~moved, Narrows(s, lost) PROVE Size(s) \in Int /\ Size(s) <= DefaultMTU
  BY <1>0, <1>2, MidBetween DEF Narrows, Size, Sizes
<1>3. ASSUME UNCHANGED <<carried, moved, lost, state, discovered, search>>,
             waited' # NotWaiting => waited # NotWaiting,
             waited # NotWaiting /\ (released' \/ "awaited" \in flying')
               => released \/ "awaited" \in flying
      PROVE  Searches'
  <2>1. search # Idle /\ ~moved => Narrows(search, lost)'
    BY <1>1, <1>3 DEF Searches, Narrows, Mid
  <2>2. MeasuredRight'
    BY <1>1, <1>3 DEF Searches, MeasuredRight
  <2> QED
    BY <1>3, <2>1, <2>2 DEF Searches, Size, Mid
<1>4. ASSUME UNCHANGED <<carried, moved, lost, state, discovered>>,
             search' = Idle, waited' = NotWaiting
      PROVE  Searches'
  <2>1. MeasuredRight'
    BY <1>1, <1>4 DEF Searches, MeasuredRight
  <2> QED
    BY <1>4, <2>1 DEF Searches
<1>5. CASE DiscoveryTick
  <2>1. CASE shouldSearch
    <3>1. UNCHANGED carried /\ state' = Searching /\ lost' = 0 /\ moved' = FALSE /\ waited' = NotWaiting
      BY <1>5, <2>1 DEF DiscoveryTick, world, enqueuePMTUProbe, Quiet
    <3>2. search' = Idle \/ search' = Candidate(Floor, DefaultMTU)
      BY <1>5, <2>1 DEF DiscoveryTick, enqueuePMTUProbe, Quiet
    <3>3. Narrows(Candidate(Floor, DefaultMTU), 0)
      BY <1>0, FitsBounds DEF Narrows, Candidate, Sizes, Searches
    <3>4. search' # Idle => Narrows(search, lost)'
      BY <1>1, <3>1, <3>2, <3>3 DEF Narrows, Mid
    <3> QED
      BY <3>1, <3>4 DEF Searches, MeasuredRight, Searching, Converged
  <2>2. CASE ~shouldSearch
    BY <1>3, <1>5, <2>2 DEF DiscoveryTick, world, history
  <2> QED
    BY <2>1, <2>2
<1>6. CASE AwaitEcho
  <2>1. search # Idle
    BY <1>6 DEF AwaitEcho, Measures, Probing, Idle, Fields
  <2>2. ~moved => Size(search) <= Fits
    BY <1>0, <1>2, <1>6, <2>1 DEF AwaitEcho, Searches
  <2>3. lost \in Nat /\ lost <= lost
    BY DEF Searches
  <2> QED
    BY <1>6, <2>1, <2>2, <2>3, VerdictSearches DEF AwaitEcho, world, history
<1>7. CASE AwaitTimeout
  <2>1. search # Idle
    BY <1>7 DEF AwaitTimeout, Measures, Probing, Idle, Fields, NotWaiting
  <2>2. lost' \in Nat /\ lost <= lost'
    BY <1>7 DEF AwaitTimeout, Searches
  <2>3. ~moved /\ Size(search) <= Fits => lost' = lost + 1
    BY <1>0, <1>2, <1>7, <2>1 DEF AwaitTimeout, Searches
  <2> QED
    BY <1>7, <2>1, <2>2, <2>3, VerdictSearches DEF AwaitTimeout, world
<1>8. CASE TooLarge
  <2>1. search # Idle
    BY <1>8 DEF TooLarge, Padded, Measures, Probing, Idle, Fields
  <2>2. ~moved => ~(Size(search) <= Fits)
    BY <1>0, <1>2, <1>8, <2>1 DEF TooLarge, Searches
  <2>3. lost \in Nat /\ lost <= lost
    BY DEF Searches
  <2> QED
    BY <1>8, <2>1, <2>2, <2>3, VerdictSearches DEF TooLarge, world, history
<1>9. CASE PMTUSlot
  <2>1. UNCHANGED <<carried, moved, lost, state, discovered, search>>
    BY <1>9 DEF PMTUSlot, world, history, machine
  <2>2. search # Idle /\ ~moved => Narrows(search, lost)'
    BY <1>1, <2>1 DEF Searches, Narrows, Mid
  <2>3. MeasuredRight'
    BY <1>1, <2>1 DEF Searches, MeasuredRight
  <2>4. Size(search) <= LocalMTU /\ released' = FALSE /\ ("awaited" \in flying' => Size(search) <= carried)
    BY <1>9 DEF PMTUSlot
  <2> QED
    BY <2>1, <2>2, <2>3, <2>4 DEF Searches, Size, Mid
<1>10. CASE SendFails
  BY <1>4, <1>10 DEF SendFails, abort, Quiet, world, history, machine
<1>11. CASE CloseGeneratedProbes
  <2>1. CASE queued
    BY <1>4, <1>11, <2>1 DEF CloseGeneratedProbes, abort, Quiet, history, machine
  <2>2. CASE ~queued
    BY <1>3, <1>11, <2>2 DEF CloseGeneratedProbes, history, machine
  <2> QED
    BY <2>1, <2>2
<1>12. ASSUME NEW e, NotifyEcho(e) PROVE Searches'
  BY <1>3, <1>12 DEF NotifyEcho, Arrives, world, machine, history
<1>13. ASSUME NEW e, Lose(e) PROVE Searches'
  BY <1>3, <1>13 DEF Lose, world, machine, history
<1>14. CASE Elapse
  BY <1>3, <1>14 DEF Elapse, world, history, NotWaiting
<1>15. CASE OrdinarySlot \/ NotifyRoam \/ Resize \/ Flap \/ UNCHANGED vars
  BY <1>3, <1>15 DEF OrdinarySlot, NotifyRoam, Resize, Flap, vars, world, machine, probe, history
<1>16. CASE Roam \/ Reroute
  BY <1>16 DEF Roam, Reroute, Searches, MeasuredRight, machine, probe
<1> QED
  BY <1>5, <1>6, <1>7, <1>8, <1>9, <1>10, <1>11, <1>12, <1>13, <1>14, <1>15, <1>16 DEF Next, Steps

\* A converged MTU fits the socket and the way, whatever is lost or late, and is the
\* largest that does unless as many probes were missed as it takes to reject a size
\* (confirmCandidate, search).
THEOREM SearchIsRight == Spec => []MeasuredRight
<1>1. Init => Measures
  BY InitMeasures
<1>2. Init => Searches
  BY DEF Init, Searches, MeasuredRight, Unstarted, Converged
<1>3. Searches => MeasuredRight
  BY DEF Searches
<1> QED
  BY <1>1, <1>2, <1>3, MeasuresStep, SearchesStep, PTL DEF Spec
============================================================================
