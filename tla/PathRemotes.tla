---------------------------- MODULE PathRemotes ----------------------------
(***************************************************************************)
(* One peer's view of a path: the table of return addresses learned from   *)
(* authenticated probes and the sticky choice among them (setRemote,       *)
(* learnRemoteFromProbe and checkRemoteDead in internal/bind/multipath.go, *)
(* driven by emitProbes in probe.go), and the up/down machine that its own *)
(* echoes drive (internal/telemetry/liveness.go).                          *)
(*                                                                         *)
(* The view belongs to a concentrator, whose senders are the edge's WANs,  *)
(* each with a path id of its own, or to an edge, whose senders are the    *)
(* hubs, each with the same id.  A probe is answered from the address it   *)
(* was sent to, under the id of the end that asked.  Time is counted in    *)
(* probe intervals.                                                        *)
(***************************************************************************)
EXTENDS Integers, Sequences, FiniteSets, SequencesExt

CONSTANTS
  Senders,       \* the far end's sockets
  WanID, HubID,  \* the path ids that the edge's WANs, and the hubs, stamp
  OwnIDs,        \* the ids this view's path may have
  Addrs, NoAddr,
  DeadAfter,     \* remoteDeadAfter
  DownAfter, RideThrough, UpAfterSuccesses,
  MaxDelay,      \* bound: for how long a frame is under way
  MaxStarved,    \* bound: for how long the probe loop may not be scheduled
  MaxEvents      \* bound: changes of the world

None == -1

ASSUME RemotesAssumption ==
  /\ {DeadAfter, DownAfter, UpAfterSuccesses} \subseteq Nat \ {0}
  /\ {RideThrough, MaxDelay, MaxStarved, MaxEvents, HubID} \subseteq Nat
  /\ WanID \in [Senders -> Nat] /\ IsInjective(WanID) /\ NoAddr \notin Addrs
  /\ DeadAfter > MaxDelay

VARIABLES
  concentrator, own,   \* whose view it is, and its path's id
  remotes,    \* the entries, the one probed last at the end; age since lastProbe
  selKey,     \* None: not selValid
  state, lastGood, haveGood, goodStreak,   \* Liveness; lastGood: the silence since
  heard,      \* age of the newest probe whose echo was accepted
  pointed,    \* the address of the last repoint
  at, reachable, knows,  \* the senders: address, whether it works, whether it probes us
  flying,     \* frames under way to this view
  probed,     \* the cadence step of this interval is done
  starved,    \* intervals the probe loop has missed
  met, astray,  \* history: for FailsOverInTime
  events

live == <<state, lastGood, haveGood, goodStreak>>
table == <<remotes, selKey>>
world == <<at, reachable>>
vars == <<concentrator, own, table, live, heard, pointed, world, knows, flying, probed, starved,
          met, astray, events>>

stamp(s) == IF concentrator THEN WanID[s] ELSE HubID
\* A change of the world; what is counted since the last one begins again.
Event == events < MaxEvents /\ events' = events + 1 /\ astray' = 0
cap(n, max) == IF n < max THEN n + 1 ELSE max

----------------------------------------------------------------------------
(* The table.                                                              *)

Others(key) == SelectSeq(remotes, LAMBDA e : e.id # key)

selectedAddr(entries, key) ==
  LET sel == {e \in ToSet(entries) : e.id = key}
  IN  IF sel = {} THEN NoAddr ELSE (CHOOSE e \in sel : TRUE).addr
destination == selectedAddr(remotes, selKey)

\* setRemote clears the table.
setRemote(a) == remotes' = <<[id |-> own, addr |-> a, age |-> 0]>> /\ selKey' = own

\* MUTANT: only the selected entry is kept fresh once there is one.
learnSelected(id, a) ==
  IF selKey \in {None, id}
  THEN remotes' = Append(Others(id), [id |-> id, addr |-> a, age |-> 0]) /\ selKey' = id
  ELSE UNCHANGED table

\* The sender path's entry is made or refreshed in place; the first is selected.
learnRemoteFromProbe(id, a) ==
  /\ remotes' = Append(Others(id), [id |-> id, addr |-> a, age |-> 0])
  /\ selKey' = IF selKey = None THEN id ELSE selKey

\* checkRemoteDead: when the selected entry has gone silent, the one probed last is
\* selected, if it has been probed later.
checkRemoteDead ==
  LET sel == {e \in ToSet(remotes) : e.id = selKey}
  IN  /\ UNCHANGED remotes
      /\ selKey' = IF sel # {} /\ \A e \in sel : e.age >= DeadAfter THEN Last(remotes).id ELSE selKey

----------------------------------------------------------------------------
(* Liveness.                                                               *)

RecordEcho ==
  LET run == IF haveGood /\ lastGood > DownAfter THEN 0 ELSE goodStreak IN
    /\ lastGood' = 0 /\ haveGood' = TRUE
    /\ goodStreak' = IF run < UpAfterSuccesses THEN run + 1 ELSE run
    /\ state' = IF goodStreak' >= UpAfterSuccesses THEN "up" ELSE state

\* MUTANT: the dwell counts twice.
downThresholdTwice == DownAfter + 2 * RideThrough + 1

downThreshold == DownAfter + RideThrough

\* Tick, on the state that an echo may have changed just before.
Tick(st, silence, have, streak) ==
  LET down == have /\ st = "up" /\ silence > downThreshold
      lapsed == have /\ st = "down" /\ silence > DownAfter
  IN  /\ state' = IF down THEN "down" ELSE st
      /\ goodStreak' = IF down \/ lapsed THEN 0 ELSE streak
      /\ lastGood' = silence /\ haveGood' = have

----------------------------------------------------------------------------
(* The probe loop and the reader.                                          *)

\* emitProbes: the fallback first, then the probe to what is selected now, then
\* Tick.  A sender that gets the probe answers it, and knows this view from then on.
\* A PMTU probe sent in its place is answered too, or lost.
emitProbes ==
  /\ ~probed /\ probed' = TRUE /\ starved' = 0
  /\ checkRemoteDead
  /\ LET to == selectedAddr(remotes, selKey')
         asked == {s \in Senders : reachable[s] /\ at[s] = to}
     IN  /\ flying' = flying \cup {[echo |-> TRUE, id |-> own, addr |-> at[s], age |-> 0] : s \in asked}
         /\ knows' = knows \cup asked
  /\ Tick(state, lastGood, haveGood, goodStreak)
  /\ UNCHANGED <<concentrator, own, heard, pointed, world, met, astray, events>>

\* HandleEchoProbe: the anti-replay guard lets an echo count if it is newer.
fresh(f) == f.echo /\ f.age < heard

\* dispatchInbound of a probe or an echo.  The frame may come again until it lapses;
\* one that does not come before is lost.
dispatchInbound(f) ==
  /\ learnRemoteFromProbe(f.id, f.addr)
  /\ IF fresh(f) THEN RecordEcho /\ heard' = f.age ELSE UNCHANGED <<live, heard>>
  /\ met' = (met \/ \E s \in Senders : reachable[s] /\ at[s] = f.addr)
  /\ UNCHANGED <<concentrator, own, pointed, world, knows, flying, probed, starved, astray, events>>

\* tickLivenessFromReceive: any reader of the bind may come to it.  That it is
\* throttled, and skipped without the lock, only makes it rarer.
tickLivenessFromReceive ==
  /\ Tick(state, lastGood, haveGood, goodStreak)
  /\ UNCHANGED <<concentrator, own, table, heard, pointed, world, knows, flying, probed, starved, met,
                 astray, events>>

\* SetPeerRemote at a hub failover, or for a resolved endpoint, as far as the table
\* is concerned.
SetPeerRemote(s) ==
  /\ Event /\ ~concentrator
  /\ setRemote(at[s]) /\ pointed' = at[s]
  /\ UNCHANGED <<concentrator, own, live, heard, world, knows, flying, probed, starved, met>>

----------------------------------------------------------------------------
(* The world.                                                              *)

\* A way fails or comes back.
Flip(s) ==
  /\ Event
  /\ reachable' = [reachable EXCEPT ![s] = ~@]
  /\ UNCHANGED <<concentrator, own, table, live, heard, pointed, at, knows, flying, probed, starved,
                 met>>

\* A NAT gives a WAN another address.
Rebind(s, a) ==
  /\ Event /\ concentrator /\ \A t \in Senders : at[t] # a
  /\ at' = [at EXCEPT ![s] = a]
  /\ UNCHANGED <<concentrator, own, table, live, heard, pointed, reachable, knows, flying, probed,
                 starved, met>>

\* The destination is where a sender is.
Right == \E s \in Senders : reachable[s] /\ at[s] = destination

LongSilence == DownAfter + RideThrough + MaxStarved + 2
LongAstray == DeadAfter + MaxDelay + MaxStarved + 1

\* An interval passes, and the senders that know this view probe it.
Elapse ==
  /\ probed \/ starved < MaxStarved
  /\ starved' = IF probed THEN 0 ELSE starved + 1
  /\ probed' = FALSE /\ met' = FALSE
  /\ remotes' = [i \in DOMAIN remotes |-> [remotes[i] EXCEPT !.age = cap(@, DeadAfter)]]
  /\ lastGood' = cap(lastGood, LongSilence)
  /\ heard' = cap(heard, MaxDelay + 1)
  /\ flying' = {[f EXCEPT !.age = @ + 1] : f \in {g \in flying : g.age < MaxDelay}}
       \cup {[echo |-> FALSE, id |-> stamp(s), addr |-> at[s], age |-> 0] :
               s \in {t \in knows : reachable[t]}}
  /\ astray' = IF met /\ ~Right THEN cap(astray, LongAstray) ELSE 0
  /\ UNCHANGED <<concentrator, own, selKey, state, haveGood, goodStreak, pointed, world, knows, events>>

----------------------------------------------------------------------------
\* Open: an edge's path is seeded with its hub, if that is known yet; a
\* concentrator's learns.
Init ==
  /\ concentrator \in BOOLEAN /\ own \in OwnIDs
  /\ at \in {a \in [Senders -> Addrs] : IsInjective(a)}
  /\ reachable \in [Senders -> BOOLEAN]
  /\ IF concentrator
     THEN knows = Senders /\ remotes = <<>> /\ selKey = None /\ pointed = NoAddr
     ELSE /\ knows = {} /\ pointed \in {NoAddr} \cup {at[s] : s \in Senders}
          /\ remotes = IF pointed = NoAddr THEN <<>>
                       ELSE <<[id |-> own, addr |-> pointed, age |-> 0]>>
          /\ selKey = IF pointed = NoAddr THEN None ELSE own
  /\ state = "down" /\ lastGood = 0 /\ haveGood = FALSE /\ goodStreak = 0 /\ heard = MaxDelay + 1
  /\ flying = {} /\ probed = FALSE /\ starved = 0
  /\ met = FALSE /\ astray = 0 /\ events = 0

Next ==
  \/ emitProbes
  \/ \E f \in flying : dispatchInbound(f)
  \/ tickLivenessFromReceive
  \/ \E s \in Senders : SetPeerRemote(s) \/ Flip(s) \/ \E a \in Addrs : Rebind(s, a)
  \/ Elapse

Spec == Init /\ [][Next]_vars

----------------------------------------------------------------------------
(* Properties.                                                             *)

\* Detection is in time: a path is never up with a silence longer than down_after
\* and ride_through by more than the interval it takes to look, plus what the probe
\* loop was kept from running (Liveness.Tick, tickLivenessFromReceive).
VerdictInTime ==
  state = "up" => lastGood <= DownAfter + RideThrough + 1 + starved

\* The destination follows the living.  While frames of a sender that works keep
\* coming in, the view stops sending to an address where there is none within
\* remoteDeadAfter of the last change of the world, and the time for which a frame
\* sent before it, or a starved probe loop, may put the fallback off
\* (learnRemoteFromProbe, checkRemoteDead).
FailsOverInTime == astray < LongAstray

\* Does NOT hold.  SetPeerRemote's comment: after it, every probe egresses toward the
\* standby.  A hub's own probes are stamped with the hub's path id, which may be this
\* path's: a hub that was given up and comes back is taken for the selected entry.
RepointHolds == ~concentrator => destination = pointed

=============================================================================
