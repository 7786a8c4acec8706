---------------------------- MODULE HubFailover ----------------------------
(***************************************************************************)
(* The edge's hub-failover controller (internal/device/failover.go).  A    *)
(* peer has an ordered list of endpoint specs.  A literal spec is one      *)
(* address; a hostname spec expands to the addresses it last resolved to.  *)
(* The flattened list is the failover order.  A poll loop (check) advances *)
(* to the next entry when every path to the active hub has been down for   *)
(* the settle dwell, wrapping round; after a full wrap, or for a list of   *)
(* one when the outage outlasts the dwell, it raises the exhaustion signal *)
(* once.  The resolver replaces a spec's expansion (updateResolution).     *)
(*                                                                         *)
(* Both run under h.mu, so each is one step.  Time is counted in ticks;    *)
(* ages stop at the largest value anything compares them with.  The hubs   *)
(* and the liveness plane are the environment: a hub answers at the        *)
(* addresses in alive, and the verdict of the probe plane follows within   *)
(* Detect ticks, which is shorter than the settle dwell (600 ms for three  *)
(* echoes, 3 s dwell).                                                     *)
(***************************************************************************)
EXTENDS Integers, Sequences, SequencesExt, FiniteSets

CONSTANTS
  NSpecs,        \* the number of endpoint specs
  Names,         \* the specs that are hostnames
  Addrs, NoAddr,
  Settle,        \* hubFailoverSettle
  Detect,        \* bound: ticks until the verdict follows the hub
  MaxExpansion,  \* bound: addresses of one hostname
  MaxChanges,    \* bound: hub changes
  MaxFailures    \* bound: failed installs

ASSUME FailoverAssumption ==
  /\ NSpecs \in Nat \ {0} /\ Names \subseteq 1..NSpecs
  /\ NoAddr \notin Addrs
  /\ {Settle, Detect, MaxExpansion, MaxChanges, MaxFailures} \subseteq Nat
  /\ Detect < Settle

VARIABLES
  addrs,         \* specs[i].addrs
  active,        \* (activeSpec, activeAddr)
  idx,           \* the active entry's place in the flattened list, 0 for none
  sinceSwitch,   \* age of lastSwitch
  downFor,       \* age of downSince
  downAdvances,
  exhaustedLatched,
  remote,        \* the remote of the peer's paths in the bind
  installed,     \* the engine peer has an endpoint
  alive,         \* the addresses at which a hub answers
  allDown,       \* every path's verdict is down
  lag,           \* ticks the verdict has been wrong
  steady,        \* history: the list has not changed in this outage, and
  tried,         \*   the entries seen down after their dwell while it has not
  changes, failures

ctrl == <<addrs, active, idx, sinceSwitch, downFor, downAdvances,
          exhaustedLatched, tried, steady>>
world == <<alive, allDown, lag, changes>>
vars == <<ctrl, remote, installed, world, failures>>

Specs == 1..NSpecs
None == [spec |-> 0, addr |-> NoAddr]
NoLoss == -1

Least(m, n) == IF m < n THEN m ELSE n

\* What resolveTarget may publish: addresses in order, without duplicates.
Expansions == {s \in BoundedSeq(Addrs, MaxExpansion) : s # <<>> /\ IsInjective(s)}

----------------------------------------------------------------------------
(* The flattened list: the addresses of the first spec, then the next's.   *)

\* Where an address stands: its spec, and its place in the spec's expansion.
Slots(lists) == {p \in Specs \X (1..MaxExpansion) : p[2] \in DOMAIN lists[p[1]]}

Entry(lists, p) == [spec |-> p[1], addr |-> lists[p[1]][p[2]]]
Entries(lists) == {Entry(lists, p) : p \in Slots(lists)}

\* The slots the loops over the specs pass before they come to p.
Before(lists, p) == {q \in Slots(lists) : q[1] < p[1] \/ (q[1] = p[1] /\ q[2] < p[2])}
Place(lists, p) == Cardinality(Before(lists, p)) + 1

\* The length of the flattened list: the sum of the expansions' lengths.
flatLen == Cardinality(Slots(addrs))

\* The place of an entry, by owning spec and address; 0 for none.  An expansion has
\* no address twice.
flatIndex(lists, e) ==
  IF e \in Entries(lists) THEN Place(lists, CHOOSE p \in Slots(lists) : Entry(lists, p) = e) ELSE 0

entryAt(lists, k) ==
  IF \E p \in Slots(lists) : Place(lists, p) = k
  THEN Entry(lists, CHOOSE p \in Slots(lists) : Place(lists, p) = k)
  ELSE None

----------------------------------------------------------------------------
(* updateResolution.                                                       *)

\* SetPeerRemote and the re-handshake.
Repoint(a) == remote' = a /\ lag' = 0 /\ UNCHANGED <<installed, failures>>

\* The engine's endpoint is set through IpcSet, which may fail.
Install(a) ==
  \/ remote' = a /\ installed' = TRUE /\ lag' = 0 /\ UNCHANGED failures
  \/ /\ failures < MaxFailures
     /\ failures' = failures + 1
     /\ UNCHANGED <<remote, installed, lag>>

\* The first address there is becomes the active one.
Adopt ==
  /\ active = None /\ entryAt(addrs', 1) # None
  /\ active' = entryAt(addrs', 1)
  /\ sinceSwitch' = 0
  /\ Install(active'.addr)

\* The active spec no longer has the active address.
Withdrawn(s, new) == s = active.spec /\ ~Contains(new, active.addr) /\ new # <<>>

Follow(s, new) ==
  /\ active # None /\ Withdrawn(s, new)
  /\ active' = [spec |-> s, addr |-> new[1]]
  /\ sinceSwitch' = 0
  /\ Repoint(new[1])

Keep(s, new) ==
  /\ IF active = None THEN entryAt(addrs', 1) = None ELSE ~Withdrawn(s, new)
  /\ UNCHANGED <<active, sinceSwitch, remote, installed, lag, failures>>

\* MUTANT: the cached place is kept when the active entry is.
updateResolutionNoRemap(s, new) ==
  /\ addrs' = [addrs EXCEPT ![s] = new]
  /\ Adopt \/ Follow(s, new) \/ Keep(s, new)
  /\ idx' = IF active' = active THEN idx ELSE flatIndex(addrs', active')
  /\ steady' = (steady /\ new = addrs[s])
  /\ tried' = IF steady' THEN tried ELSE {}
  /\ UNCHANGED <<downFor, downAdvances, exhaustedLatched>>

updateResolution(s, new) ==
  /\ addrs' = [addrs EXCEPT ![s] = new]
  /\ Adopt \/ Follow(s, new) \/ Keep(s, new)
  /\ idx' = flatIndex(addrs', active')
  /\ steady' = (steady /\ new = addrs[s])
  /\ tried' = IF steady' THEN tried ELSE {}
  /\ UNCHANGED <<downFor, downAdvances, exhaustedLatched>>

\* A lookup succeeded (resolveTarget publishes nothing otherwise).
Resolve(s, new) ==
  /\ updateResolution(s, new)
  /\ UNCHANGED <<alive, allDown, changes>>

----------------------------------------------------------------------------
(* check.                                                                  *)

\* MUTANT: the onset of a past outage is kept.
CheckUpKeepsOnset ==
  /\ flatLen > 0 /\ ~allDown
  /\ downAdvances' = 0 /\ exhaustedLatched' = FALSE
  /\ tried' = {} /\ steady' = TRUE
  /\ UNCHANGED <<addrs, active, idx, sinceSwitch, downFor, remote, installed, world, failures>>

\* A path is up: the outage, if there was one, is over.
CheckUp ==
  /\ flatLen > 0 /\ ~allDown
  /\ downAdvances' = 0 /\ exhaustedLatched' = FALSE /\ downFor' = NoLoss
  /\ tried' = {} /\ steady' = TRUE
  /\ UNCHANGED <<addrs, active, idx, sinceSwitch, remote, installed, world, failures>>

\* The outage as this check sees it.
Onset == IF downFor = NoLoss THEN 0 ELSE downFor

NotedDown ==
  /\ allDown
  /\ downFor' = Onset
  /\ UNCHANGED steady
  /\ tried' = IF steady /\ sinceSwitch >= Settle THEN tried \cup {active} ELSE tried

\* A list of one raises the signal and does nothing else.
CheckSingle ==
  /\ flatLen = 1 /\ NotedDown
  /\ exhaustedLatched' = (exhaustedLatched \/ Onset >= Settle)
  /\ UNCHANGED <<addrs, active, idx, sinceSwitch, downAdvances, remote, installed, world, failures>>

\* The active entry has its dwell.
CheckDwell ==
  /\ flatLen >= 2 /\ NotedDown /\ sinceSwitch < Settle
  /\ UNCHANGED <<addrs, active, idx, sinceSwitch, downAdvances, exhaustedLatched,
                 remote, installed, world, failures>>

\* MUTANT: no wrap.
NextIndexStops == LET prev == flatIndex(addrs, active)
                  IN  IF prev = flatLen THEN prev ELSE prev + 1

\* The place after the active one; the head when the active one is gone.
NextIndex == (flatIndex(addrs, active) % flatLen) + 1

\* MUTANT: off by one.
WrapShort == downAdvances + 2 >= flatLen

\* The wrap counter, and whether this advance completes a wrap.
Wrapped == downAdvances + 1 >= flatLen

Advance ==
  /\ flatLen >= 2 /\ NotedDown /\ sinceSwitch >= Settle
  /\ active' = entryAt(addrs, NextIndex) /\ idx' = NextIndex
  /\ sinceSwitch' = 0
  /\ Repoint(active'.addr)
  /\ downAdvances' = IF Wrapped THEN 0 ELSE downAdvances + 1
  /\ exhaustedLatched' = (exhaustedLatched \/ Wrapped)
  /\ UNCHANGED <<addrs, alive, allDown, changes>>

check == CheckUp \/ CheckSingle \/ CheckDwell \/ Advance

----------------------------------------------------------------------------
(* The environment: hubs, the liveness plane, time.                        *)

ChangeHubs(up) ==
  /\ changes < MaxChanges /\ changes' = changes + 1
  /\ up # alive
  /\ alive' = up /\ lag' = 0
  /\ UNCHANGED <<ctrl, remote, installed, allDown, failures>>

Wrong == allDown = (remote \in alive)

Verdict ==
  /\ Wrong
  /\ allDown' = ~allDown /\ lag' = 0
  /\ UNCHANGED <<ctrl, remote, installed, alive, changes, failures>>

Tick ==
  /\ Wrong => lag < Detect
  /\ lag' = IF Wrong THEN lag + 1 ELSE 0
  /\ sinceSwitch' = Least(sinceSwitch + 1, Settle)
  /\ downFor' = IF downFor = NoLoss THEN NoLoss ELSE Least(downFor + 1, Settle)
  /\ UNCHANGED <<addrs, active, idx, downAdvances, exhaustedLatched, tried, steady,
                 remote, installed, alive, allDown, changes, failures>>

\* newHubFailoverFromSpecs, after the bounded resolve at boot: a literal has its
\* address, a hostname what it resolved to or nothing, and the engine peer was
\* given the first entry.  Config load refuses two equal literals.
Init ==
  /\ addrs \in {lists \in [Specs -> Expansions \cup {<<>>}] :
        /\ \A s \in Specs \ Names : Len(lists[s]) = 1
        /\ \A s, t \in Specs \ Names : lists[s] = lists[t] => s = t}
  /\ active = entryAt(addrs, 1) /\ idx = flatIndex(addrs, active)
  /\ sinceSwitch = 0 /\ downFor = NoLoss /\ downAdvances = 0
  /\ exhaustedLatched = FALSE
  /\ remote = active.addr /\ installed = (active # None)
  /\ alive \in SUBSET Addrs /\ allDown = TRUE /\ lag = 0
  /\ tried = {} /\ steady = TRUE /\ changes = 0 /\ failures = 0

Next ==
  \/ check
  \/ \E s \in Names, new \in Expansions : Resolve(s, new)
  \/ \E up \in SUBSET Addrs : ChangeHubs(up)
  \/ Verdict
  \/ Tick

\* The poll loop and the probe plane run on tickers.
Fairness == WF_vars(check) /\ WF_vars(Verdict) /\ WF_vars(Tick)

Spec == Init /\ [][Next]_vars /\ Fairness

----------------------------------------------------------------------------
(* Properties.                                                             *)

\* The controller, its snapshot and the bind agree.  However the specs grow and
\* shrink, a list that is not empty has an active entry, the entry the status
\* snapshot marks active is that one, and no entry of another spec with the same
\* address is taken for it (flatIndexLocked); and the bind sends to the endpoint the
\* controller believes active, unless the first install failed (updateResolution,
\* check).
OneActiveEndpoint ==
  /\ active = None => Entries(addrs) = {}
  /\ active # None => idx \in 1..flatLen /\ entryAt(addrs, idx) = active
  /\ installed => remote = active.addr

\* Nothing happens without its cause.  The bind is repointed only on hub loss, on
\* the first resolution, or when the active hostname no longer has the active
\* address: a standby's change never disturbs a working tunnel (updateResolution).
\* And if the list kept still during the outage, the signal means that every
\* entry was active for its dwell and seen down (checkLocked: "every configured
\* endpoint has been tried and found down").
NoStepWithoutCause ==
  [][/\ remote' # remote => \/ allDown \/ active = None
                            \/ ~Contains(addrs'[active.spec], active.addr)
     /\ ~exhaustedLatched /\ exhaustedLatched' /\ steady
          => Entries(addrs) \subseteq tried']_vars

\* No outage goes unanswered.  Once the hubs and the names are quiet, a list with
\* an answering entry ends up on one that answers, if the first install did not
\* fail (the list wraps, and the dwell outlasts the recovery of the verdict); and
\* a loss that stays is signalled, whatever the length of the list, for the exit
\* selector hears of it by no other way (raiseExhaustedLocked).
OutagesAnswered ==
  /\ <>[](installed /\ (\E e \in Entries(addrs) : e.addr \in alive) => ~allDown)
  /\ <>[](allDown /\ flatLen > 0) => <>[]exhaustedLatched

\* The controller keeps the promise the exit selector relies on: it signals once
\* per outage, and only an outage observed for the whole dwell (checkLocked).
Controller == INSTANCE ExitController WITH
  Never <- "never", Brief <- "brief", Long <- "long",
  down <- allDown, latched <- exhaustedLatched,
  outage <- IF downFor = NoLoss THEN "never"
            ELSE IF downFor < Settle THEN "brief" ELSE "long"
ControllerPromise == Controller!Spec
============================================================================
