---------------------------- MODULE SourceDemux ----------------------------
(***************************************************************************)
(* The inbound demultiplexer of a concentrator (internal/bind/             *)
(* multipath.go).  One reader per socket receives the datagrams of every   *)
(* peer.  An authenticated PROBE from an unknown source binds the source   *)
(* address to its peer, in a map that is replaced by compare-and-swap, and *)
(* then makes sure the peer has a resequencer.  A reader takes these three *)
(* steps (look up, bind, ensure) without a lock, while other readers do    *)
(* the same and the session monitor tears peers down: it drops the         *)
(* resequencer and, in a second step, the peer's bindings.                 *)
(*                                                                         *)
(* Every peer has a view of every socket (attachSharedPathLocked adds them *)
(* all before the reader starts), so a datagram from a bound source that   *)
(* is not its peer's changes nothing and is not an action.  A map entry    *)
(* replaced by compare-and-swap is one atomic step: a lost race retries    *)
(* from the map that won, and the insertion number is drawn again.         *)
(***************************************************************************)
EXTENDS Naturals, FiniteSets

CONSTANTS
  Peers, Sources, Readers,
  Primary,          \* the embedded primary peer, never torn down
  NoPeer,
  MaxDemuxSources,  \* maxDemuxSources, the cap on the map
  MaxBinds          \* bound: bindings made in all

ASSUME DemuxAssumption ==
  /\ IsFiniteSet(Peers) /\ IsFiniteSet(Sources)
  /\ Primary \in Peers /\ NoPeer \notin Peers
  /\ MaxDemuxSources \in Nat \ {0} /\ MaxBinds \in Nat

VARIABLES
  open,      \* the bind is open
  owner,     \* peerBySource: the peer of each bound source
  stamp,     \* sourceBinding.seq
  bindSeq,
  receiver,  \* the peers whose resequencer exists
  live,      \* the peers with a path that is Up
  reader,    \* what each reader is about to do
  tearing    \* TearDownPeer between dropping the resequencer and the bindings

vars == <<open, owner, stamp, bindSeq, receiver, live, reader, tearing>>

Idle == [step |-> "idle", source |-> NoPeer, peer |-> NoPeer]
NotTearing == NoPeer

Bound == {s \in Sources : owner[s] # NoPeer}
SourcesOf(p) == {s \in Sources : owner[s] = p}

perPeerQuota == LET share == MaxDemuxSources \div Cardinality(Peers)
                IN  IF share < 1 THEN 1 ELSE share

Oldest(p) == CHOOSE s \in SourcesOf(p) : \A t \in SourcesOf(p) : stamp[s] <= stamp[t]

----------------------------------------------------------------------------
(* A reader's three steps.                                                 *)

\* demuxInbound: a PROBE of p from a source that is not bound when looked up.
LookUp(r, p, s) ==
  /\ open /\ reader[r] = Idle
  /\ owner[s] = NoPeer
  /\ reader' = [reader EXCEPT ![r] = [step |-> "bind", source |-> s, peer |-> p]]
  /\ UNCHANGED <<open, owner, stamp, bindSeq, receiver, live, tearing>>

\* MUTANT: the map's capacity is what decides about eviction, and any peer's
\* oldest binding may go.
VictimsOfAnyone(p) ==
  IF Cardinality(Bound) >= MaxDemuxSources
  THEN {CHOOSE s \in Bound : \A t \in Bound : stamp[s] <= stamp[t]} ELSE {}

\* The binding that makes room: the peer's own oldest, once it is at its quota.
Victims(p) == IF Cardinality(SourcesOf(p)) >= perPeerQuota THEN {Oldest(p)} ELSE {}

\* The map is full and the peer is below its quota.
Exhausted(p) == /\ Cardinality(SourcesOf(p)) < perPeerQuota
                /\ Cardinality(Bound) >= MaxDemuxSources

\* bindSourceToPeer
Bind(r) ==
  LET p == reader[r].peer
      s == reader[r].source
      refused == owner[s] = NoPeer /\ Exhausted(p)
      same == owner[s] = p
      gone == IF owner[s] = NoPeer THEN Victims(p) ELSE {}
  IN  /\ reader[r].step = "bind"
      /\ bindSeq < MaxBinds
      /\ reader' = [reader EXCEPT ![r] = IF refused THEN Idle
                                         ELSE [@ EXCEPT !.step = "ensure"]]
      /\ owner' = IF refused \/ same THEN owner
                  ELSE [t \in Sources |-> IF t = s THEN p
                                          ELSE IF t \in gone THEN NoPeer ELSE owner[t]]
      /\ bindSeq' = IF refused \/ same THEN bindSeq ELSE bindSeq + 1
      /\ stamp' = IF refused \/ same THEN stamp ELSE [stamp EXCEPT ![s] = bindSeq + 1]
      /\ UNCHANGED <<open, receiver, live, tearing>>

\* ensurePeerReceiveInstantiated
Ensure(r) ==
  /\ reader[r].step = "ensure"
  /\ receiver' = receiver \cup {reader[r].peer}
  /\ reader' = [reader EXCEPT ![r] = Idle]
  /\ UNCHANGED <<open, owner, stamp, bindSeq, live, tearing>>

----------------------------------------------------------------------------
(* Session loss, in the one goroutine of peerTeardownMonitor.              *)

\* TearDownPeer, teardownPeerLocked: a peer that is not live loses its
\* resequencer.
TearDown(p) ==
  /\ tearing = NotTearing /\ p # Primary /\ p \notin live
  /\ receiver' = receiver \ {p}
  /\ tearing' = p
  /\ UNCHANGED <<open, owner, stamp, bindSeq, live, reader>>

\* MUTANT: one binding is dropped, not all.
UnbindOne ==
  /\ tearing # NotTearing
  /\ owner' = [s \in Sources |->
                 IF SourcesOf(tearing) # {} /\ s = Oldest(tearing)
                 THEN NoPeer ELSE owner[s]]
  /\ tearing' = NotTearing
  /\ UNCHANGED <<open, stamp, bindSeq, receiver, live, reader>>

\* unbindPeerSources, after which TearDownPeer returns true.
Unbind ==
  /\ tearing # NotTearing
  /\ owner' = [s \in Sources |-> IF owner[s] = tearing THEN NoPeer ELSE owner[s]]
  /\ tearing' = NotTearing
  /\ UNCHANGED <<open, stamp, bindSeq, receiver, live, reader>>

\* A path of the peer goes Up or its last one goes Down (peerIsLiveLocked).
ChangeLive(p) ==
  /\ live' = (live \ {p}) \cup ({p} \ live)
  /\ UNCHANGED <<open, owner, stamp, bindSeq, receiver, reader, tearing>>

----------------------------------------------------------------------------
(* Close joins the readers and drops the resequencers, but keeps the map.  *)

Close ==
  /\ open /\ \A r \in Readers : reader[r] = Idle
  /\ open' = FALSE
  /\ receiver' = {}
  /\ UNCHANGED <<owner, stamp, bindSeq, live, reader, tearing>>

Open ==
  /\ ~open
  /\ open' = TRUE
  /\ receiver' = Peers
  /\ UNCHANGED <<owner, stamp, bindSeq, live, reader, tearing>>

----------------------------------------------------------------------------

Init ==
  /\ open = TRUE
  /\ owner = [s \in Sources |-> NoPeer]
  /\ stamp = [s \in Sources |-> 0]
  /\ bindSeq = 0
  /\ receiver = Peers
  /\ live = {}
  /\ reader = [r \in Readers |-> Idle]
  /\ tearing = NotTearing

Next ==
  \/ \E r \in Readers : Bind(r) \/ Ensure(r)
  \/ \E r \in Readers, p \in Peers, s \in Sources : LookUp(r, p, s)
  \/ \E p \in Peers : TearDown(p) \/ ChangeLive(p)
  \/ Unbind \/ Close \/ Open

\* The readers and the monitor's goroutine are never blocked.
Fairness == /\ \A r \in Readers : WF_vars(Ensure(r))
            /\ WF_vars(Unbind)

Spec == Init /\ [][Next]_vars /\ Fairness

----------------------------------------------------------------------------
(* Properties.                                                             *)

ReaderState == [step : {"idle", "bind", "ensure"}, source : Sources \cup {NoPeer},
                peer : Peers \cup {NoPeer}]

\* The types of the demultiplexer's state; a reader that is not idle works for
\* some peer.
TypeOK ==
  /\ open \in BOOLEAN
  /\ owner \in [Sources -> Peers \cup {NoPeer}]
  /\ stamp \in [Sources -> Nat] /\ bindSeq \in Nat
  /\ receiver \subseteq Peers /\ live \subseteq Peers
  /\ reader \in [Readers -> ReaderState]
  /\ \A r \in Readers : reader[r].step # "idle" =>
       reader[r].peer \in Peers /\ reader[r].source \in Sources
  /\ tearing \in Peers \cup {NotTearing}

\* A bound source never leads to a peer without a resequencer, except while
\* the reader that bound one of its sources has yet to build it or the
\* teardown that dropped it has yet to drop the bindings.  Otherwise the
\* peer's datagrams would be routed to nothing, and no PROBE would ever bind
\* the source again (demuxInbound, TearDownPeer).
BoundHasReceiver ==
  open => \A s \in Bound :
    \/ owner[s] \in receiver
    \/ \E r \in Readers : reader[r].step = "ensure" /\ reader[r].peer = owner[s]
    \/ tearing = owner[s]

\* The map never grows past its cap (bindSourceToPeer).
CapRespected == Cardinality(Bound) <= MaxDemuxSources

\* No peer costs another a binding: a source leaves a peer only if its own
\* teardown drops it, if it is re-pointed to the peer that now uses it, or if
\* the peer itself binds another source and this was its oldest
\* (bindSourceToPeer).
Isolation ==
  [][\A s \in Bound : owner'[s] # owner[s] =>
       \/ tearing = owner[s]
       \/ owner'[s] # NoPeer
       \/ /\ s = Oldest(owner[s])
          /\ \E t \in Sources : owner[t] # owner[s] /\ owner'[t] = owner[s]]_vars

\* A peer with a bound source and no resequencer does not stay that way.
ReceiverReturns ==
  \A s \in Sources, p \in Peers :
    (open /\ owner[s] = p /\ p \notin receiver)
      ~> (~open \/ owner[s] # p \/ p \in receiver)
============================================================================
