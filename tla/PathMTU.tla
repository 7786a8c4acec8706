------------------------------ MODULE PathMTU ------------------------------
(***************************************************************************)
(* From a path's measured MTU to the MTU of wanbond0: the discovery        *)
(* machine of one path (internal/telemetry/pmtu.go), the probe it waits on *)
(* (pmtuprobe.go), the cadence slot that sends the probe (internal/bind),  *)
(* and the resizer that folds all paths into the link MTU                  *)
(* (internal/device/tunresize.go).                                         *)
(*                                                                         *)
(* Three loops tick at the probe interval: the probe cadence, the          *)
(* discovery goroutine, which blocks while it searches, and the resizer.   *)
(* "due" holds the loops that have still to run in this interval, in any   *)
(* order.  Beside the discovered path there is a pinned one, which only    *)
(* the resizer looks at.  Sizes are path MTUs between PMTUFloor and the    *)
(* default.                                                                *)
(***************************************************************************)
EXTENDS Integers, FiniteSets, FiniteSetsExt

CONSTANTS
  Floor, DefaultMTU,  \* PMTUFloor, DefaultPathMTU
  LocalMTU,      \* the socket refuses a larger datagram with EMSGSIZE
  PinnedMTU,     \* the configured mtu of the pinned path
  Overhead,      \* junk headroom and InnerMTU's fixed layers
  Confirmations, Rejections, Attempts,  \* per candidate size
  Deadline, Refresh, Dwell,  \* in probe intervals
  MayClose,      \* whether the path may be removed
  MaxEvents      \* bound: losses, changes of the path, errors

ASSUME MTUAssumption ==
  /\ {Floor, DefaultMTU, LocalMTU, PinnedMTU, Overhead, Deadline, MaxEvents} \subseteq Nat
  /\ {Confirmations, Rejections, Attempts, Dwell} \subseteq Nat \ {0}
  /\ Floor < DefaultMTU /\ Floor <= LocalMTU /\ Dwell < Refresh /\ Overhead < Floor
  /\ Rejections * Confirmations <= Attempts /\ MayClose \in BOOLEAN

VARIABLES
  carried,    \* the largest size the way to the remote carries
  up, pinnedUp,  \* the liveness verdicts of the two paths
  closed,     \* the path's socket generation is retired
  calling,    \* roam callbacks that have been read and not yet run
  state, discovered, prevUp, reprobePending, age,  \* PMTUDiscovery
  search,     \* the search on the discovery goroutine's stack
  queued,     \* pendingPMTU
  ordinaryProbeDue,
  waited,     \* intervals since the awaited probe was sent
  released,   \* the waiter's channel holds an echo
  flying,     \* echoes under way: of the awaited probe, of an earlier one
  applied, pending, pendingAge,  \* mtuResizer
  due,
  lost, moved, roamed,  \* history: since the search began
  wanted, steady,  \* history: the resizer's last target, and for how long
  events

world == <<carried, up, pinnedUp, closed>>
machine == <<state, discovered, prevUp, reprobePending, age>>
probe == <<search, queued, ordinaryProbeDue, waited, released, flying>>
resizer == <<applied, pending, pendingAge, wanted, steady>>
history == <<lost, moved, roamed>>
vars == <<world, calling, machine, probe, resizer, due, history, events>>

Sizes == Floor..DefaultMTU
Loops == {"cadence", "discovery", "resize"}
Unstarted == "unstarted"
Searching == "searching"
Converged == "converged"
Idle == [at |-> "idle"]
NotWaiting == -1

----------------------------------------------------------------------------
(* The search: one probe at a time, each waited for.                       *)

Event == events < MaxEvents /\ events' = events + 1

\* The probe ProbePMTU is called with next.
Candidate(lo, hi) ==
  [at |-> "candidate", lo |-> lo, hi |-> hi, consecutive |-> 0, rejections |-> 0, attempt |-> 0]
Mid(s) == (s.lo + s.hi + 1) \div 2
Size(s) == IF s.at = "candidate" THEN Mid(s) ELSE s.lo

Quiet == search' = Idle /\ queued' = FALSE /\ waited' = NotWaiting /\ released' = FALSE

\* enqueuePMTUProbe: the probe waits for its slot, and its waiter is registered
\* there.  A closed path refuses it, and the error ends the search.
enqueuePMTUProbe(s) ==
  IF closed THEN Quiet
  ELSE search' = s /\ queued' = TRUE /\ waited' = NotWaiting /\ released' = FALSE

\* MUTANT: the end of a search forgets the roam that happened during it.
convergeForgets(size) ==
  /\ discovered' = size /\ state' = Converged /\ age' = 0 /\ reprobePending' = FALSE
  /\ Quiet
  /\ UNCHANGED prevUp

\* Tick, after the search: latch the result.
converge(size) ==
  /\ discovered' = size /\ state' = Converged /\ age' = 0
  /\ Quiet
  /\ UNCHANGED <<prevUp, reprobePending>>

\* search: bisect until one size is left.
narrow(lo, hi) ==
  IF lo < hi THEN enqueuePMTUProbe(Candidate(lo, hi)) /\ UNCHANGED machine ELSE converge(lo)

\* search: what confirmCandidate's verdict leaves of the interval.
settle(s, accepted) ==
  IF accepted THEN narrow(Mid(s), s.hi) ELSE narrow(s.lo, Mid(s) - 1)

\* confirmCandidate: the next attempt, or no more.
retry(s) ==
  IF s.attempt + 1 < Attempts
  THEN enqueuePMTUProbe([s EXCEPT !.at = "candidate", !.attempt = @ + 1]) /\ UNCHANGED machine
  ELSE settle(s, FALSE)

\* confirmCandidate: the misses that the control size did not share are enough.
rejected(s) == s.rejections + 1 >= Rejections

\* confirmCandidate, back from a probe: a candidate is accepted by consecutive
\* echoes, and rejected by misses that the control size did not share.
confirmCandidate(s, echoed) ==
  CASE s.at = "candidate" /\ echoed ->
         IF s.consecutive + 1 >= Confirmations THEN settle(s, TRUE)
         ELSE retry([s EXCEPT !.consecutive = @ + 1])
    [] s.at = "candidate" /\ ~echoed ->
         enqueuePMTUProbe([s EXCEPT !.at = "control", !.consecutive = 0]) /\ UNCHANGED machine
    [] s.at = "control" /\ echoed ->
         IF rejected(s) THEN settle(s, FALSE)
         ELSE retry([s EXCEPT !.rejections = @ + 1])
    [] OTHER -> retry(s)

\* An error ends the search; the machine stays in pmtuSearching.
abort == Quiet /\ UNCHANGED machine

----------------------------------------------------------------------------
(* The discovery goroutine.                                                *)

\* MUTANT: no periodic refresh.
refreshNever == FALSE

\* decideLocked: the periodic refresh of a converged path.
refreshDue == state = Converged /\ age >= Refresh

\* decideLocked: the triggers, and whether this tick searches.
reprobe == reprobePending \/ (~prevUp /\ up) \/ refreshDue
shouldSearch == up /\ (state # Converged \/ reprobe)

\* Tick: the path's state is noted, and the first probe of a search handed to the
\* cadence, or refused by a path that has been closed.
DiscoveryTick ==
  /\ "discovery" \in due /\ search = Idle
  /\ due' = due \ {"discovery"}
  /\ prevUp' = up
  /\ reprobePending' = (reprobe /\ ~shouldSearch)
  /\ IF shouldSearch
     THEN /\ state' = Searching
          /\ enqueuePMTUProbe(Candidate(Floor, DefaultMTU))
          /\ lost' = 0 /\ moved' = FALSE /\ roamed' = FALSE
     ELSE UNCHANGED <<state, search, queued, waited, released, history>>
  /\ UNCHANGED <<world, calling, discovered, age, ordinaryProbeDue, flying, resizer, events>>

\* The echo releases the waiter.
AwaitEcho ==
  /\ waited # NotWaiting /\ released
  /\ confirmCandidate(search, TRUE)
  /\ UNCHANGED <<world, calling, ordinaryProbeDue, flying, resizer, due, history, events>>

\* The deadline passes first, or the echo comes too late, or both are ready and
\* the deadline is chosen.
AwaitTimeout ==
  /\ waited >= Deadline
  /\ IF released \/ "awaited" \in flying THEN Event ELSE UNCHANGED events
  /\ lost' = IF Size(search) <= carried THEN lost + 1 ELSE lost
  /\ confirmCandidate(search, FALSE)
  /\ UNCHANGED <<world, calling, ordinaryProbeDue, flying, resizer, due, moved, roamed>>

----------------------------------------------------------------------------
(* The probe cadence and the echoes.                                       *)

\* An echo arrives; a second copy of it may follow.
Arrives(e) ==
  /\ e \in flying
  /\ \/ flying' = flying \ {e} /\ UNCHANGED events
     \/ Event /\ UNCHANGED flying

\* MUTANT: NotifyEcho releases the waiter whatever probe the echo answers.
NotifyAnyEcho(e) ==
  /\ Arrives(e)
  /\ released' = (released \/ waited # NotWaiting)
  /\ UNCHANGED <<world, calling, machine, search, queued, ordinaryProbeDue, waited, resizer, due,
                 history>>

\* NotifyEcho: only the echo of the awaited probe finds a waiter.
NotifyEcho(e) ==
  /\ Arrives(e)
  /\ released' = (released \/ (e = "awaited" /\ waited # NotWaiting))
  /\ UNCHANGED <<world, calling, machine, search, queued, ordinaryProbeDue, waited, resizer, due,
                 history>>

\* The network loses an echo, or the probe on its way out.
Lose(e) ==
  /\ Event
  /\ e \in flying
  /\ flying' = flying \ {e}
  /\ UNCHANGED <<world, calling, machine, search, queued, ordinaryProbeDue, waited, released,
                 resizer, due, history>>

\* An ordinary liveness probe takes the slot: no request, or its turn is reserved.
OrdinarySlot ==
  /\ "cadence" \in due /\ (~queued \/ ordinaryProbeDue)
  /\ due' = due \ {"cadence"} /\ ordinaryProbeDue' = FALSE
  /\ UNCHANGED <<world, calling, machine, search, queued, waited, released, flying, resizer,
                 history, events>>

\* The PMTU request takes the slot and reserves the next for an ordinary probe: the
\* probe is generated, its waiter registered, and the datagram written.
Padded ==
  /\ "cadence" \in due /\ queued /\ ~ordinaryProbeDue
  /\ due' = due \ {"cadence"} /\ ordinaryProbeDue' = TRUE

\* Sent: an echo will come if the way carries the size.
PMTUSlot ==
  /\ Padded /\ Size(search) <= LocalMTU
  /\ queued' = FALSE /\ waited' = 0 /\ released' = FALSE
  /\ flying' = (IF flying # {} THEN {"earlier"} ELSE {})
               \cup (IF Size(search) <= carried THEN {"awaited"} ELSE {})
  /\ UNCHANGED <<world, calling, machine, search, resizer, history, events>>

\* EMSGSIZE: a verdict, not an error.
TooLarge ==
  /\ Padded /\ Size(search) > LocalMTU
  /\ flying' = IF flying # {} THEN {"earlier"} ELSE {}
  /\ confirmCandidate(search, FALSE)
  /\ UNCHANGED <<world, calling, resizer, history, events>>

\* The path has no remote, or the write fails: the search is given up.
SendFails ==
  /\ Event
  /\ Padded
  /\ abort
  /\ UNCHANGED <<world, calling, flying, resizer, history>>

\* closeGeneratedProbes, at the path's removal: a queued request is answered.
\* With the socket go the echoes.
CloseGeneratedProbes ==
  /\ MayClose /\ ~closed
  /\ closed' = TRUE
  /\ IF queued THEN abort ELSE UNCHANGED <<machine, search, queued, waited, released>>
  /\ flying' = {}
  /\ UNCHANGED <<carried, up, pinnedUp, calling, ordinaryProbeDue, resizer, due, history, events>>

----------------------------------------------------------------------------
(* The world: the way to the remote, and liveness.                         *)

\* setRemote, learnRemoteFromProbe and checkRemoteDead change the selected
\* address under ps.mu, and run the callback after they have released it.
Roam ==
  /\ Event
  /\ carried' \in Sizes
  /\ calling' = calling + 1 /\ roamed' = TRUE /\ moved' = TRUE
  /\ UNCHANGED <<up, pinnedUp, closed, machine, probe, resizer, due, lost>>

NotifyRoam ==
  /\ calling > 0
  /\ calling' = calling - 1 /\ reprobePending' = TRUE
  /\ UNCHANGED <<world, state, discovered, prevUp, age, probe, resizer, due, history, events>>

\* The underlay changes without a sign.
Reroute ==
  /\ Event
  /\ carried' \in Sizes \ {carried} /\ moved' = TRUE
  /\ UNCHANGED <<up, pinnedUp, closed, calling, machine, probe, resizer, due, lost, roamed>>

\* A verdict of Prober.State flips.
Flap ==
  /\ Event
  /\ \/ up' = ~up /\ UNCHANGED pinnedUp
     \/ pinnedUp' = ~pinnedUp /\ UNCHANGED up
  /\ UNCHANGED <<carried, closed, calling, machine, probe, resizer, due, history>>

----------------------------------------------------------------------------
(* The resizer.                                                            *)

\* PathMTUOrZero: nothing while a search is under way or has failed.
PathMTUOrZero == IF state = Converged THEN discovered ELSE 0

InnerMTU(pmtu) == pmtu - Overhead

\* sampleMTU: a path without a measured MTU counts with its configured one or
\* the default.
sampleMTU ==
  (IF up /\ ~closed THEN {IF PathMTUOrZero > 0 THEN PathMTUOrZero ELSE DefaultMTU} ELSE {})
  \cup (IF pinnedUp THEN {PinnedMTU} ELSE {})

minInnerMTU == Min({InnerMTU(s) : s \in sampleMTU})

\* MUTANT: a resolved flap leaves the pending target in place.
settledKeepsPending == UNCHANGED <<applied, pending, pendingAge>>

\* recompute: no path up, or nothing to change.
settled == pending' = 0 /\ pendingAge' = 0 /\ UNCHANGED applied

\* The netlink call sets the link, or fails and leaves it to a later recompute.
apply(target) ==
  /\ pending' = 0 /\ pendingAge' = 0
  /\ \/ applied' = target /\ UNCHANGED events
     \/ Event /\ UNCHANGED applied

\* recompute: a smaller target is applied at once, a larger one when it has held.
Resize ==
  /\ "resize" \in due
  /\ due' = due \ {"resize"}
  /\ IF sampleMTU = {} \/ minInnerMTU = applied
     THEN settled /\ UNCHANGED events
     ELSE LET target == minInnerMTU
              held == IF pending = target THEN pendingAge ELSE 0
          IN IF target > applied /\ held < Dwell
             THEN /\ pending' = target /\ pendingAge' = held
                  /\ UNCHANGED <<applied, events>>
             ELSE apply(target)
  /\ wanted' = IF sampleMTU = {} THEN 0 ELSE minInnerMTU
  /\ steady' = IF wanted' = wanted THEN steady ELSE 0
  /\ UNCHANGED <<world, calling, machine, probe, history>>

----------------------------------------------------------------------------
\* An interval passes when every loop has run, but for a discovery goroutine in
\* its search, and no deadline is overdue.
Elapse ==
  /\ due \subseteq (IF search = Idle THEN {} ELSE {"discovery"}) /\ waited < Deadline
  /\ due' = Loops
  /\ waited' = IF waited = NotWaiting THEN waited ELSE waited + 1
  /\ age' = IF state = Converged /\ age < Refresh THEN age + 1 ELSE age
  /\ pendingAge' = IF pending # 0 /\ pendingAge < Dwell THEN pendingAge + 1 ELSE pendingAge
  /\ steady' = IF steady < Dwell THEN steady + 1 ELSE steady
  /\ UNCHANGED <<world, calling, state, discovered, prevUp, reprobePending, search, queued,
                 ordinaryProbeDue, released, flying, applied, pending, wanted, history,
                 events>>

\* tunMTU: the link is sized for every configured path.
bootMTU == InnerMTU(Min({DefaultMTU, PinnedMTU}))

\* startPMTUDiscovery, with the bind open and its probe loop running: the paths
\* may be up already.
Boot == up \in BOOLEAN /\ pinnedUp \in BOOLEAN /\ closed = FALSE /\ calling = 0

\* NewPMTUDiscovery.  prevUp counts as TRUE while there is no state yet (haveState).
Init ==
  /\ Boot /\ carried \in Sizes
  /\ state = Unstarted /\ discovered = Floor /\ prevUp = TRUE /\ reprobePending = FALSE /\ age = 0
  /\ search = Idle /\ queued = FALSE /\ ordinaryProbeDue = FALSE
  /\ waited = NotWaiting /\ released = FALSE /\ flying = {}
  /\ applied = bootMTU /\ pending = 0 /\ pendingAge = 0
  /\ due = Loops
  /\ lost = 0 /\ moved = FALSE /\ roamed = FALSE /\ wanted = 0 /\ steady = 0
  /\ events = 0

Steps ==
  \/ DiscoveryTick \/ AwaitEcho \/ AwaitTimeout
  \/ \E e \in {"awaited", "earlier"} : NotifyEcho(e)
  \/ OrdinarySlot \/ PMTUSlot \/ TooLarge
  \/ NotifyRoam \/ Resize \/ Elapse

Next ==
  \/ Steps
  \/ \E e \in {"awaited", "earlier"} : Lose(e)
  \/ SendFails \/ CloseGeneratedProbes
  \/ Roam \/ Reroute \/ Flap

\* The tickers keep firing, the goroutines they wake are scheduled, and the
\* network delivers what it does not lose.
Fairness == WF_vars(Steps) /\ WF_vars(NotifyRoam)

Spec == Init /\ [][Next]_vars /\ Fairness

----------------------------------------------------------------------------
(* Properties.                                                             *)

\* What a datagram may measure, on the socket and on the way.
Fits == Min({carried, LocalMTU, DefaultMTU})

\* The search measures what the way carries.  confirmCandidate never takes a size
\* for carried that is not, whatever is lost or late: a converged MTU fits, unless
\* the way changed since its search began.  Nor does loss alone shrink it: with
\* fewer missed probes than it takes to reject a size, it is the largest that fits.
MeasuredRight ==
  state = Converged /\ ~moved => /\ discovered <= Fits
                                 /\ lost < Rejections => discovered = Fits

\* Nothing handed from one goroutine to another is lost.  A roam during a search
\* outlives the search, which measured the old way: the callback, or the mark it
\* leaves (NotifyRoam), is still there.  And the discovery goroutine is never left
\* waiting for a slot that will not come: a path no longer probed holds no request,
\* whichever of enqueuePMTUProbe and closeGeneratedProbes came first.
NothingStranded ==
  /\ roamed => calling > 0 \/ reprobePending
  /\ closed => ~queued

\* The link is only ever widened to a target that every recompute of the last
\* dwell has asked for, through flapping paths and failed netlink calls (decide).
LoosensAfterDwell == [][applied' > applied => wanted = applied' /\ steady >= Dwell]_vars

\* The link the UP paths carry.
FittingLink ==
  InnerMTU(Min((IF up /\ ~closed THEN {Fits} ELSE {}) \cup (IF pinnedUp THEN {PinnedMTU} ELSE {})))

\* However the paths change, once they have stopped the link keeps coming back to
\* the size they carry: by roam, recovery or the periodic refresh (Tick, recompute).
LinkFits == []<>((up /\ ~closed) \/ pinnedUp => applied = FittingLink)

\* Does NOT hold.  PathMTUOrZero's comment says that a path reports its discovered
\* value from its first convergence on.  Then no recompute would widen the link past
\* the discovered value of an UP path (age > 0: it has converged once).
LinkWithinMeasured ==
  [][age > 0 /\ up /\ ~moved /\ applied' > applied => applied' <= InnerMTU(discovered)]_vars

=============================================================================
