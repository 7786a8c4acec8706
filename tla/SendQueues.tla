----------------------------- MODULE SendQueues -----------------------------
(***************************************************************************)
(* The queues between the tunnel and the lanes: Enqueue in                 *)
(* internal/bond/bond.go, the fair queues and the drop schedule of         *)
(* queue.go, and send in schedule.go, one step per datagram it looks at.   *)
(* A poll divides the lanes (LaneShares); whether a lane that may carry a  *)
(* class has room for one more datagram (pacing, window) is left open.     *)
(* The transport's lock is held from the poll to the end of send.          *)
(***************************************************************************)
EXTENDS LaneShares, SequencesExt, FiniteSets

CONSTANTS
  TCPFlows, OtherFlows,  \* the flows of small datagrams, by protocol
  NoFlow,                \* FlowID{}, never coalesced
  Lanes, Offers,         \* the lanes and demands a poll may find
  MaxPackets,            \* 8192
  SmallHeadroom,         \* smallPacketHeadroom, 1024
  QueueAge, BulkAges,    \* maxQueueAge; what bulkQueueAge returns
  RealtimeTarget, RealtimeInterval,
  Target, Interval,      \* the drop schedule's
  AckSpace, Acks,        \* 2^32; the acknowledgement numbers that are sent
  MaxOffered, MaxTime    \* bounds

Flows == TCPFlows \cup OtherFlows \cup {NoFlow}
Never == -1

ASSUME QueueAssumption ==
  /\ SmallHeadroom \in 1..(MaxPackets - 1) /\ AckSpace \in Nat /\ AckSpace >= 4
  /\ TCPFlows \cap OtherFlows = {} /\ NoFlow \notin TCPFlows \cup OtherFlows

VARIABLES
  now,
  ring,       \* per small class: the flows that have datagrams, the next one first
  packets,    \* per small class and flow: its datagrams
  count,      \* per small class: fairPacketQueue.count
  bulk,       \* the bulk queue
  pending,    \* unacknowledged datagrams, per class
  aqm,        \* the drop schedule (codel)
  late, skipping,  \* realtimeLate, realtimeSkipping
  at,         \* where Poll and send are
  plan,       \* the division of the lanes, until it has been used:
  open,       \* the classes some lane may carry, and whether one is discovering
  offered, refused,   \* history: the datagrams offered; the refused one's class
  passed      \* history: per class and flow f, the turns of each flow since f's last

queues == <<ring, packets, count, bulk>>
realtime == <<late, skipping>>
vars == <<now, queues, pending, aqm, realtime, at, plan, open, offered, refused, passed>>

SmallClasses == {Realtime, Small}
queued == Len(bulk) + count[Realtime] + count[Small]
Pending == SumFunction(pending)
Expired(p) == now > p.deadline

----------------------------------------------------------------------------
(* Enqueue.                                                                *)

classify(flow, large, ack) ==
  IF large THEN Bulk ELSE IF flow \in TCPFlows \/ ack # Never THEN Small ELSE Realtime

\* supersedes: a strictly later cumulative ACK, in sequence arithmetic.  An ACK whose
\* other fields differ is not eligible: Never.
supersedes(a, b) ==
  a # Never /\ b # Never /\ (a - b) % AckSpace \in 1..(AckSpace \div 2 - 1)

\* push replaces the middle one of three advancing ACKs.
coalesces(q, p) ==
  /\ Len(q) >= 2 /\ p.flow # NoFlow
  /\ supersedes(q[Len(q)].ack, q[Len(q) - 1].ack) /\ supersedes(p.ack, q[Len(q)].ack)

pushCount(c, q, p) == IF coalesces(q, p) THEN count ELSE [count EXCEPT ![c] = @ + 1]

\* MUTANT: a flow that becomes active goes next.
joinFirst(r, flow) == <<flow>> \o r

\* push: a flow that becomes active joins at the end of the ring.
join(r, flow) == Append(r, flow)

push(c, p) ==
  LET q == packets[c][p.flow] IN
    /\ ring' = [ring EXCEPT ![c] = IF q = <<>> THEN join(@, p.flow) ELSE @]
    /\ packets' = [packets EXCEPT ![c][p.flow] =
                     IF coalesces(q, p) THEN [@ EXCEPT ![Len(@)] = p] ELSE Append(@, p)]
    /\ count' = pushCount(c, q, p)
    /\ UNCHANGED bulk

\* MUTANT: bulk may fill the bound.
limitSame(c) == MaxPackets

limit(c) == IF c = Bulk THEN MaxPackets - SmallHeadroom ELSE MaxPackets

Enqueue(flow, large, ack) ==
  LET c == classify(flow, large, ack) IN
    /\ at = "idle" /\ offered < MaxOffered
    /\ offered' = offered + 1
    /\ IF queued + Pending >= limit(c)
       THEN refused' = c /\ UNCHANGED queues
       ELSE /\ refused' = Never
            /\ \E age \in IF c = Bulk THEN BulkAges ELSE {QueueAge} :
                 LET p == [flow |-> flow, ack |-> ack, created |-> now, deadline |-> now + age] IN
                   IF c = Bulk THEN bulk' = Append(bulk, p) /\ UNCHANGED <<ring, packets, count>>
                   ELSE push(c, p)
    /\ UNCHANGED <<now, pending, aqm, realtime, at, plan, open, passed>>

----------------------------------------------------------------------------
(* send.                                                                   *)

Head1(c) == Head(packets[c][Head(ring[c])])

\* pop turns the ring; a flow without datagrams leaves it.
turn(r, more) == IF more THEN Append(Tail(r), Head(r)) ELSE Tail(r)

pop(c) ==
  LET f == Head(ring[c]) IN
    /\ ring' = [ring EXCEPT ![c] = turn(@, Len(packets[c][f]) > 1)]
    /\ packets' = [packets EXCEPT ![c][f] = Tail(@)]
    /\ count' = [count EXCEPT ![c] = @ - 1]
    /\ passed' = [passed EXCEPT ![c] =
         [g \in Flows |-> IF g = f \/ packets[c][g] = <<>> THEN [h \in Flows |-> 0]
                          ELSE [@[g] EXCEPT ![f] = @ + 1]]]
    /\ UNCHANGED bulk

NoPlan == <<>>
Shut == [classes |-> {}, discovering |-> FALSE]

\* chooseLane: a lane that may carry the class and allows it some rate.
mayCarry(p, c) ==
  \E i \in DOMAIN p.lanes : Eligible(p.lanes[i], c) /\ (c = Realtime \/ allowed(p, c, i) > 0)

\* A datagram is acknowledged, or its repair deadline has passed.
settle(c) ==
  /\ at = "idle" /\ pending[c] > 0
  /\ pending' = [pending EXCEPT ![c] = @ - 1]
  /\ UNCHANGED <<now, queues, aqm, realtime, at, plan, open, offered, refused, passed>>

\* Poll divides the lanes.
Poll ==
  /\ at = "idle" /\ at' = "divided"
  /\ \E lanes \in Lanes, offer \in Offers :
       offer.bulk = (bulk # <<>>) /\ plan' = reserve(lanes, offer)
  /\ UNCHANGED <<now, queues, pending, aqm, realtime, open, offered, refused, passed>>

\* send starts; an empty queue ends the backlog of real-time datagrams.
send ==
  /\ at = "divided" /\ at' = "realtime"
  /\ open' = [classes |-> {c \in 0..Bulk : mayCarry(plan, c)},
              discovering |-> \E i \in DOMAIN plan.lanes : ~plan.lanes[i].suspect /\ ~plan.lanes[i].found]
  /\ plan' = NoPlan
  /\ IF count[Realtime] = 0 THEN late' = Never /\ skipping' = FALSE ELSE UNCHANGED realtime
  /\ UNCHANGED <<now, queues, pending, aqm, offered, refused, passed>>

\* stale: the datagram has waited for longer than the target, as its predecessors
\* have for a whole interval.
stale(p) ==
  IF now - p.created <= RealtimeTarget
  THEN skipping' = FALSE /\ late' = Never
  ELSE /\ late' = IF late = Never /\ ~skipping THEN now ELSE late
       /\ skipping' = (skipping \/ now - late' >= RealtimeInterval)

Class == [realtime |-> Realtime, small |-> Small, bulk |-> Bulk]
After == [realtime |-> "small", small |-> "bulk", bulk |-> "idle"]
Leave == at' = After[at] /\ open' = IF at = "bulk" THEN Shut ELSE open

\* One round of send's loop over a small class.
sendSmall ==
  /\ at \in {"realtime", "small"}
  /\ LET c == Class[at] IN
       \/ /\ ring[c] = <<>> /\ Leave
          /\ UNCHANGED <<queues, pending, realtime, passed>>
       \/ /\ ring[c] # <<>>
          /\ IF c = Realtime /\ ~Expired(Head1(c)) THEN stale(Head1(c)) ELSE UNCHANGED realtime
          /\ IF Expired(Head1(c)) \/ (c = Realtime /\ skipping')
             THEN pop(c) /\ UNCHANGED <<at, open, pending>>
             ELSE \/ /\ c \in open.classes /\ pop(c)
                     /\ pending' = [pending EXCEPT ![c] = @ + 1]
                     /\ UNCHANGED <<at, open>>
                  \/ Leave /\ UNCHANGED <<queues, pending, passed>>
  /\ UNCHANGED <<now, aqm, plan, offered, refused>>

\* controlLaw: the interval over the square root of the count.
controlLaw(t, n) == t + Max({d \in 0..Interval : d * d * n <= Interval * Interval})

\* codel.drop, for a datagram that waited and leaves `remaining' behind.
okToDrop(sojourn, remaining) ==
  /\ sojourn >= Target /\ remaining > 0
  /\ aqm.firstAbove # Never /\ now >= aqm.firstAbove
above(sojourn, remaining) ==
  IF sojourn < Target \/ remaining = 0 THEN Never
  ELSE IF aqm.firstAbove = Never THEN now + Interval ELSE aqm.firstAbove
drops(ok) == ok /\ (aqm.dropping => now >= aqm.dropNext)
\* A schedule entered again soon goes on from the rate of drops it had.
dropped(ok, first) ==
  LET delta == aqm.count - aqm.lastCount
      n == IF aqm.dropping THEN aqm.count + 1
           ELSE IF delta > 1 /\ now - aqm.dropNext < 16 * Interval THEN delta ELSE 1
  IN IF ~drops(ok) THEN [aqm EXCEPT !.firstAbove = first, !.dropping = @ /\ ok]
     ELSE [firstAbove |-> first, dropping |-> TRUE, count |-> n,
           lastCount |-> IF aqm.dropping THEN aqm.lastCount ELSE n,
           dropNext |-> controlLaw(IF aqm.dropping THEN aqm.dropNext ELSE now, n)]

\* One round of send's loop over bulk; no drops while a lane is discovering.
sendBulk ==
  /\ at = "bulk"
  /\ \/ /\ bulk # <<>> /\ Expired(Head(bulk)) /\ bulk' = Tail(bulk)
        /\ UNCHANGED <<pending, aqm, at, open>>
     \/ /\ bulk # <<>> /\ ~Expired(Head(bulk)) /\ Bulk \in open.classes /\ bulk' = Tail(bulk)
        /\ LET ok == okToDrop(now - Head(bulk).created, Len(bulk) - 1)
           IN /\ aqm' = IF open.discovering THEN aqm
                        ELSE dropped(ok, above(now - Head(bulk).created, Len(bulk) - 1))
              /\ pending' = IF ~open.discovering /\ drops(ok) THEN pending ELSE [pending EXCEPT ![Bulk] = @ + 1]
        /\ UNCHANGED <<at, open>>
     \/ /\ bulk # <<>> => ~Expired(Head(bulk))
        /\ Leave /\ UNCHANGED <<bulk, pending, aqm>>
  /\ UNCHANGED <<now, ring, packets, count, realtime, plan, offered, refused, passed>>

Tick ==
  /\ at = "idle" /\ now < MaxTime /\ now' = now + 1
  /\ UNCHANGED <<queues, pending, aqm, realtime, at, plan, open, offered, refused, passed>>

----------------------------------------------------------------------------
Init ==
  /\ now = 0 /\ offered = 0 /\ refused = Never /\ at = "idle" /\ plan = NoPlan /\ open = Shut
  /\ ring = [c \in SmallClasses |-> <<>>]
  /\ packets = [c \in SmallClasses |-> [f \in Flows |-> <<>>]]
  /\ count = [c \in SmallClasses |-> 0]
  /\ bulk = <<>> /\ pending = [c \in 0..Bulk |-> 0]
  /\ aqm = [firstAbove |-> Never, dropNext |-> Never, count |-> 0, lastCount |-> 0, dropping |-> FALSE]
  /\ late = Never /\ skipping = FALSE
  /\ passed = [c \in SmallClasses |-> [f \in Flows |-> [g \in Flows |-> 0]]]

Next ==
  \/ Enqueue(NoFlow, TRUE, Never)
  \/ \E f \in Flows, ack \in {Never} \cup Acks :
       (f \notin TCPFlows => ack = Never) /\ Enqueue(f, FALSE, ack)
  \/ Poll \/ (\E c \in 0..Bulk : settle(c)) \/ send \/ sendSmall \/ sendBulk \/ Tick

Spec == Init /\ [][Next]_vars

----------------------------------------------------------------------------
(* Properties.                                                             *)

\* "A burst in one flow cannot occupy another flow's turn": while a flow waits, each
\* other flow gets at most one turn before it, one that went idle and came back too.
\* The queues are what they say: the count is the number of datagrams, which Enqueue
\* holds against maxPackets for good, and the ring has each flow that has datagrams
\* exactly once (push and its replaced ACKs, pop).
FairTurns ==
  \A c \in SmallClasses :
    /\ \A f, g \in Flows : packets[c][f] # <<>> => passed[c][f][g] <= 1
    /\ count[c] = SumFunction([f \in Flows |-> Len(packets[c][f])])
    /\ ToSet(ring[c]) = {f \in Flows : packets[c][f] # <<>>} /\ IsInjective(ring[c])

\* Bulk alone never has a small datagram refused: when one is, the small classes hold
\* at least their headroom, queued or unacknowledged (Enqueue's limit).
HeadroomIsForSmall ==
  [][offered' # offered /\ refused' \in SmallClasses =>
       count[Realtime] + count[Small] + pending[Realtime] + pending[Small] >= SmallHeadroom]_vars

\* Whatever the poll finds, it divides no lane beyond its rate, leaves the minimum of
\* the small class on its lane, and gives every lower class a lane (reserve, allowed).
SharesHold == at = "divided" => Fits(plan) /\ Served(plan) /\ LeavesMinimum(plan)

=============================================================================
