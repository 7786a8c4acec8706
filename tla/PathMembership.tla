--------------------------- MODULE PathMembership ---------------------------
(***************************************************************************)
(* The paths of a running bind: Open and Close by the engine, AddPath and  *)
(* RemovePath by a reload, and the reconcile loop that promotes a path     *)
(* whose source address was not yet assignable (internal/bind/multipath.go *)
(* and reconcile.go, Reload in internal/device/device.go).                 *)
(*                                                                         *)
(* transitionMu serialises these; what they change under m.mu is one step, *)
(* except that the transport forgets a retired socket under its own lock.  *)
(* After m.mu is released a transition still closes its sockets and waits: *)
(* for the writes admitted on them, and in Close for the readers and the   *)
(* transports.  Meanwhile writers hold sockets they planned to use, and    *)
(* readers handle datagrams of sockets that are gone.                      *)
(***************************************************************************)
EXTENDS Integers, Sequences, FiniteSets, SequencesExt

CONSTANTS
  Paths,      \* path names
  Boot,       \* the configured paths, in order
  Peers,      \* the bound peers
  Desired,    \* the path lists of the files that are reloaded
  MaxPathID,  \* 255
  MaxOpens, MaxReloads, MaxFaults, MaxMoves  \* bounds

ASSUME MembershipAssumption ==
  /\ \A s \in Desired \cup {Boot} : s \in Seq(Paths) /\ s # <<>> /\ IsInjective(s)
  /\ Peers # {} /\ Len(Boot) <= MaxPathID + 1
  /\ {MaxPathID, MaxOpens, MaxReloads, MaxFaults, MaxMoves} \subseteq Nat

VARIABLES
  defs,         \* m.defs, the durable membership
  probers,      \* each peer's prober of every def: the id it stamps
  shared,       \* the sockets
  paths,        \* each peer's views, one per socket
  deferred,     \* the names whose source is not assignable
  nextPathID, generation,
  assignable,   \* the paths whose source address the host has
  transition,   \* what transitionMu's holder has still to do
  lanes,        \* the sockets some peer's transport has a lane on
  handling,     \* the sockets whose reader is handling a datagram
  writer,       \* a goroutine that writes: a transport's, or the probe loop
  reload,       \* what a reload has still to do
  running,      \* the paths of Tunnel.cfg
  reloads, faults, moves,
  admitted      \* history: every admission of a path, with its id

durable == <<defs, probers, nextPathID, admitted>>
bound == <<shared, paths, deferred>>
traffic == <<lanes, handling, writer>>
control == <<reload, running, reloads>>
vars == <<durable, bound, generation, assignable, transition, traffic, control, faults, moves>>

Writers == {"transport", "probes"}
Free == [at |-> "none", closing |-> FALSE, sockets |-> {}]
Idle == [at |-> "idle"]

Retirement(sockets, closing) == [at |-> "forget", closing |-> closing, sockets |-> sockets]

Names(sockets) == {s.name : s \in sockets}
IsOpen == shared # {}
Unlocked == transition = Free
\* m.mu is held until the transports have forgotten the retired sockets.
MuFree == transition.at # "forget"
writesClosed(s) == s \notin shared

Fault == faults < MaxFaults /\ faults' = faults + 1

Index(seq, name) == CHOOSE i \in DOMAIN seq : seq[i] = name

\* The id of a configured path, as the primary's prober stamps it.
Stamp(name) == probers[CHOOSE p \in Peers : TRUE][Index(defs, name)]

----------------------------------------------------------------------------
(* Sockets and their views.                                                *)

Socket(name, id) == [name |-> name, id |-> id, generation |-> generation']

\* attachSharedPathLocked: every peer gets its view.
attach(sockets) ==
  /\ shared' = shared \cup sockets
  /\ paths' = [p \in Peers |-> paths[p] \cup sockets]

\* detachPeerPathBoundLocked, by name.
detach(views, name) == {s \in views : s.name # name}

\* MUTANT: the failed fan-out leaves the views of the peers before the failure.
rollbackForgets(done, s) == [p \in Peers |-> IF p \in done THEN paths[p] \cup {s} ELSE paths[p]]

\* attachSharedPathLocked, when a peer's view cannot be built: the views of the
\* peers that were done are taken back.
rollback(done, s) ==
  [p \in Peers |-> IF p \in done THEN detach(paths[p] \cup {s}, s.name) ELSE paths[p]]

\* The peers a fan-out that fails may have got to.
Partial == SUBSET Peers \ {Peers}

----------------------------------------------------------------------------
(* Open, Close and retirement.                                             *)

\* MUTANT: only bound paths move the id counter.
stampsOfBound == {probers[p][i] : p \in Peers, i \in {j \in DOMAIN defs : defs[j] \in assignable}}

\* Open: the ids stamped by the probers of bound and deferred paths alike.
stamps == UNION {ToSet(probers[p]) : p \in Peers}

\* Open: every def is bound, or deferred when its source is not assignable; the
\* ids minted at run time stay above every stamp.
Open ==
  /\ Unlocked /\ ~IsOpen /\ generation < MaxOpens
  /\ generation' = generation + 1
  /\ attach({Socket(d, Stamp(d)) : d \in ToSet(defs) \cap assignable})
  /\ deferred' = IF shared' = {} THEN {} ELSE ToSet(defs) \ assignable
  /\ nextPathID' = IF shared' = {} THEN nextPathID ELSE
       CHOOSE n \in 0..MaxPathID + 1 :
         /\ n >= nextPathID /\ \A id \in stamps : n > id
         /\ n = nextPathID \/ n - 1 \in stamps
  /\ UNCHANGED <<defs, probers, admitted, assignable, transition, traffic, control, faults,
                 moves>>

\* A listen error that is not EADDRNOTAVAIL: what was bound is retired again.
OpenFails ==
  /\ Unlocked /\ ~IsOpen /\ generation < MaxOpens
  /\ Fault
  /\ generation' = generation + 1
  /\ UNCHANGED <<durable, bound, assignable, transition, traffic, control, moves>>

\* Close, under m.mu: the views and sockets are detached and admit no more writes.
Close ==
  /\ Unlocked /\ IsOpen
  /\ transition' = Retirement(shared, TRUE)
  /\ shared' = {} /\ deferred' = {} /\ paths' = [p \in Peers |-> {}]
  /\ UNCHANGED <<durable, generation, assignable, traffic, control, faults, moves>>

\* The transition goes on to its next step, or transitionMu is released.
GoesOnTo(step) ==
  transition' = [at |-> step, closing |-> transition.closing, sockets |-> transition.sockets]
Returns == transition' = Free

\* prepareSharedLocked: every peer's transport drops its lanes on the sockets.
forgetSocket ==
  /\ transition.at = "forget" /\ GoesOnTo("close")
  /\ lanes' = lanes \ transition.sockets
  /\ UNCHANGED <<durable, bound, generation, assignable, handling, writer, control, faults, moves>>

\* retire: the sockets are closed, which ends their readers' reads.
closeSocket ==
  /\ transition.at = "close" /\ GoesOnTo("writes")
  /\ UNCHANGED <<durable, bound, generation, assignable, traffic, control, faults, moves>>

Writing(s) == writer.at = "writing" /\ writer.socket = s

\* waitWrites: no admitted write is left on the sockets.
waited == \A s \in transition.sockets : ~Writing(s)

waitWrites ==
  /\ transition.at = "writes" /\ waited
  /\ IF transition.closing THEN GoesOnTo("readers") ELSE Returns
  /\ UNCHANGED <<durable, bound, generation, assignable, traffic, control, faults, moves>>

\* Close, at its end: the readers and the transports' goroutines have returned.
waitReaders ==
  /\ transition.at = "readers" /\ handling = {} /\ (writer # Idle => writer.by = "probes") /\ Returns
  /\ UNCHANGED <<durable, bound, generation, assignable, traffic, control, faults, moves>>

----------------------------------------------------------------------------
(* Membership at run time.                                                 *)

\* A prober for every peer, stamped with the path's id.
mint(id) == [p \in Peers |-> Append(probers[p], id)]

\* AddPath.  The id is spent when the path is admitted, bound or deferred.
AddPath(name) ==
  /\ IsOpen /\ name \notin ToSet(defs) /\ nextPathID <= MaxPathID
  /\ defs' = Append(defs, name)
  /\ nextPathID' = nextPathID + 1
  /\ admitted' = admitted \cup {[name |-> name, id |-> nextPathID, nth |-> Cardinality(admitted)]}
  /\ probers' = mint(nextPathID)
  /\ IF name \in assignable
     THEN attach({Socket(name, nextPathID)}) /\ UNCHANGED deferred
     ELSE deferred' = deferred \cup {name} /\ UNCHANGED <<shared, paths>>
  /\ UNCHANGED <<transition, traffic, faults>>

\* AddPath refuses, or fails to listen or to fan out: the socket it bound, if any,
\* is retired.
AddFails(name) ==
  /\ \/ /\ ~IsOpen \/ name \in ToSet(defs) \/ nextPathID > MaxPathID
        /\ UNCHANGED <<paths, transition, faults>>
     \/ Fault /\ IsOpen /\ UNCHANGED <<paths, transition>>
     \/ /\ Fault /\ IsOpen /\ name \in assignable \ ToSet(defs) /\ nextPathID <= MaxPathID
        /\ LET s == Socket(name, nextPathID) IN
             /\ \E done \in Partial : paths' = rollback(done, s)
             /\ transition' = Retirement({s}, FALSE)
  /\ UNCHANGED <<durable, shared, deferred, traffic>>

splice(seq, i) == [j \in 1..Len(seq) - 1 |-> seq[IF j < i THEN j ELSE j + 1]]

\* RemovePath: the last live path stays.  A bound one is detached and retired;
\* removeDurableLocked drops the def, each peer's prober of it and the deferred record.
RemovePath(name) ==
  /\ IsOpen /\ name \in ToSet(defs) /\ Names(shared) # {name}
  /\ defs' = splice(defs, Index(defs, name))
  /\ probers' = [p \in Peers |-> splice(probers[p], Index(defs, name))]
  /\ deferred' = deferred \ {name}
  /\ shared' = detach(shared, name)
  /\ paths' = [p \in Peers |-> detach(paths[p], name)]
  /\ transition' = IF name \notin Names(shared) THEN Free
       ELSE Retirement({s \in shared : s.name = name}, FALSE)
  /\ UNCHANGED <<nextPathID, admitted, traffic, faults>>

RemoveFails(name) ==
  /\ ~IsOpen \/ name \notin ToSet(defs) \/ Names(shared) = {name}
  /\ UNCHANGED <<durable, bound, transition, traffic, faults>>

\* MUTANT: the reconcile loop tries only the first deferred path.
promotableFirst ==
  {n \in deferred \cap assignable : \A d \in deferred : Index(defs, n) <= Index(defs, d)}

\* reconcileDeferred tries every deferred path.
promotable == deferred \cap assignable

\* reconcileDeferred: each path that can be bound is attached with the probers it
\* already has; the others stay deferred.
Promoted(names) == {Socket(n, Stamp(n)) : n \in names}

reconcileDeferred ==
  /\ Unlocked /\ IsOpen /\ promotable # {}
  /\ generation' = generation
  /\ attach(Promoted(promotable))
  /\ deferred' = deferred \ promotable
  /\ UNCHANGED <<durable, assignable, transition, traffic, control, faults, moves>>

\* promoteDeferredLocked fails for one of them: its socket is retired, the path kept.
promoteFails ==
  /\ Unlocked /\ IsOpen /\ Fault
  /\ generation' = generation
  /\ \E n \in promotable, done \in Partial :
       LET s == Socket(n, Stamp(n))
           others == promotable \ {n}
       IN /\ shared' = shared \cup Promoted(others)
          /\ paths' = [q \in Peers |-> rollback(done, s)[q] \cup Promoted(others)]
          /\ transition' = Retirement({s}, FALSE)
          /\ deferred' = deferred \ others
  /\ UNCHANGED <<durable, assignable, traffic, control, moves>>

----------------------------------------------------------------------------
(* Reload: additions first, then removals, each a transition of its own.   *)

\* diffPaths, by name.
diffAdd(desired) == SelectSeq(desired, LAMBDA n : n \notin ToSet(defs))
diffRemove(desired) == SelectSeq(defs, LAMBDA n : n \notin ToSet(desired))

Reload(desired) ==
  /\ reload = Idle /\ MuFree /\ reloads < MaxReloads
  /\ reloads' = reloads + 1
  /\ reload' = [at |-> "diffed", add |-> diffAdd(desired), remove |-> diffRemove(desired),
                added |-> diffAdd(desired), removed |-> ToSet(diffRemove(desired))]
  /\ UNCHANGED <<durable, bound, generation, assignable, transition, traffic, running, faults, moves>>

\* A refused step ends the reload; Tunnel.cfg stays as it was.
ReloadAdd ==
  /\ reload # Idle /\ reload.add # <<>> /\ Unlocked
  /\ generation' = generation
  /\ \/ AddPath(Head(reload.add)) /\ reload' = [reload EXCEPT !.add = Tail(@)]
     \/ AddFails(Head(reload.add)) /\ reload' = Idle
  /\ UNCHANGED <<assignable, running, reloads, moves>>

ReloadRemove ==
  /\ reload # Idle /\ reload.add = <<>> /\ reload.remove # <<>> /\ Unlocked
  /\ generation' = generation
  /\ \/ RemovePath(Head(reload.remove)) /\ reload' = [reload EXCEPT !.remove = Tail(@)]
     \/ RemoveFails(Head(reload.remove)) /\ reload' = Idle
  /\ UNCHANGED <<assignable, running, reloads, moves>>

\* runningConfig: the survivors, then the additions.
ReloadDone ==
  /\ reload # Idle /\ reload.add = <<>> /\ reload.remove = <<>> /\ Unlocked
  /\ reload' = Idle
  /\ running' = SelectSeq(running, LAMBDA n : n \notin reload.removed) \o reload.added
  /\ UNCHANGED <<durable, bound, generation, assignable, transition, traffic, reloads, faults, moves>>

----------------------------------------------------------------------------
(* Traffic.                                                                *)

\* MUTANT: the reader goes on after its socket was closed.
readableAlways(s) == TRUE

\* readLoop: a read on a closed socket fails, and the reader ends.
readable(s) == writesClosed(s) => transition.at \in {"forget", "close"}

readLoop(s) ==
  /\ s \notin handling /\ readable(s)
  /\ handling' = handling \cup {s}
  /\ UNCHANGED <<durable, bound, generation, assignable, transition, lanes, writer, control, faults,
                 moves>>

\* MUTANT: learn does not look whether the socket has been retired.
learnOnAny(s) == TRUE

\* learn: an authenticated hello makes a lane, unless its socket has been retired.
learnable(s) == ~writesClosed(s)

\* The datagram is handled; if it was a hello, the peer's transport learns its lane.
learn(s) ==
  /\ handling' = handling \ {s}
  /\ lanes' \in {lanes} \cup {lanes \cup {t} : t \in {u \in {s} : learnable(u)}}
  /\ UNCHANGED <<durable, bound, generation, assignable, transition, writer, control, faults, moves>>

\* flush and emitProbes choose their sockets under a lock and write after it.
Plan(by) ==
  /\ writer = Idle /\ (by = "probes" => MuFree)
  /\ \E s \in IF by = "transport" THEN lanes ELSE UNION {paths[p] : p \in Peers} :
       writer' = [at |-> "planned", socket |-> s, by |-> by]
  /\ UNCHANGED <<durable, bound, generation, assignable, transition, lanes, handling, control, faults,
                 moves>>

\* writeToUDPAddrPort: admitted or refused; the write returns.
Write ==
  /\ writer # Idle
  /\ writer' = IF writer.at = "writing" \/ writesClosed(writer.socket) THEN Idle
               ELSE [at |-> "writing", socket |-> writer.socket, by |-> writer.by]
  /\ UNCHANGED <<durable, bound, generation, assignable, transition, lanes, handling, control, faults,
                 moves>>

\* The host gains or loses the source address of a path.
Move ==
  /\ moves < MaxMoves /\ moves' = moves + 1
  /\ \E n \in Paths : assignable' = IF n \in assignable THEN assignable \ {n} ELSE assignable \cup {n}
  /\ UNCHANGED <<durable, bound, generation, transition, traffic, control, faults>>

----------------------------------------------------------------------------
\* NewMultipath and AddConcentratorPeer: one prober per path for every peer.
Init ==
  /\ defs = Boot /\ running = Boot
  /\ probers = [p \in Peers |-> [i \in DOMAIN Boot |-> i - 1]]
  /\ admitted = {[name |-> Boot[i], id |-> i - 1, nth |-> i - 1] : i \in DOMAIN Boot}
  /\ shared = {} /\ paths = [p \in Peers |-> {}] /\ deferred = {}
  /\ nextPathID = 0 /\ generation = 0
  /\ assignable \in SUBSET Paths
  /\ transition = Free /\ reload = Idle
  /\ lanes = {} /\ handling = {} /\ writer = Idle
  /\ reloads = 0 /\ faults = 0 /\ moves = 0

Retire == forgetSocket \/ closeSocket \/ waitWrites \/ waitReaders
Handle == \E s \in handling : learn(s)
ReloadStep == ReloadAdd \/ ReloadRemove \/ ReloadDone

Next ==
  \/ Open \/ OpenFails \/ Close \/ Retire
  \/ reconcileDeferred \/ promoteFails
  \/ \E d \in Desired : Reload(d)
  \/ ReloadStep \/ Handle \/ Move
  \/ \E s \in shared \cup transition.sockets : readLoop(s)
  \/ Write \/ \E by \in Writers : Plan(by)

\* Goroutines are scheduled, a write returns, a read of a closed socket fails, and
\* the reconcile loop's ticker fires.  The engine may leave the bind closed.
Fairness ==
  WF_vars(Retire) /\ WF_vars(reconcileDeferred) /\ WF_vars(Handle) /\ WF_vars(Write)

Spec == Init /\ [][Next]_vars /\ Fairness

----------------------------------------------------------------------------
(* Properties.                                                             *)

\* An id is never minted twice in the life of the process, through removals, reopens
\* and paths that were never bound (nextPathID): the peer keys its lanes by it.
IdsNeverReused == \A a, b \in admitted : a.id = b.id => a = b

\* While the bind is open every configured path is either bound or deferred, never
\* both, never neither, and every peer has a view of every socket (attachSharedPath-
\* Locked and its rollback, removeDurableLocked, reconcileDeferred).  Open or not,
\* every peer has one prober per durable path, in the order of m.defs, stamped with
\* the id the primary's has: Open, promoteDeferredLocked and removeDurableLocked all
\* index the one by the other.  And no id comes twice.
MembershipWhole ==
  /\ IsOpen => /\ Names(shared) \cup deferred = ToSet(defs)
               /\ Names(shared) \cap deferred = {}
               /\ \A s, t \in shared : s.name = t.name => s = t
               /\ \A p \in Peers : paths[p] = shared
  /\ \A p, q \in Peers : probers[p] = probers[q] /\ Len(probers[p]) = Len(defs)
  /\ IdsNeverReused

\* Nothing is left on a retired socket.  No lane: a hello that its reader was
\* handling when the socket was retired comes too late (learn, forgetSocket).  And
\* no write: when RemovePath or Close has returned, none is under way on a socket it
\* has retired, planned as it may have been (stopWrites, waitWrites).
RetiredIsQuiet ==
  /\ MuFree => lanes \subseteq shared
  /\ Unlocked /\ writer.at = "writing" => writer.socket \in shared

\* Close and RemovePath return: the waits for writes, readers and transports end.
TransitionsReturn == transition # Free ~> transition = Free

\* Every deferred path whose source address becomes assignable is bound, unless the
\* path is removed, the bind closed or the address lost first (StartReconcileLoop): no
\* refused or failed attempt makes the loop forget one.
DeferredPromoted == deferred \cap assignable # {} ~> deferred \cap assignable = {}

\* Does NOT hold.  runningConfig's comment: Tunnel.cfg has the membership the bind now
\* serves, in the order of m.defs.
RunningMirrors == [][ReloadDone => running' = defs]_vars

=============================================================================
