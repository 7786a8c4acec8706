----------------------------- MODULE LaneShares -----------------------------
(***************************************************************************)
(* How a transport divides its lanes among the traffic classes at a poll:  *)
(* reserve, reserveCopies, assignable, allowed and realtimeLane in         *)
(* internal/bond/schedule.go.  A pure function of the eligible lanes (in   *)
(* the order of their latency), the measured demand and whether bulk       *)
(* waits.  Rates are integers; shares are rounded down.                    *)
(***************************************************************************)
EXTENDS Integers, Sequences, FiniteSetsExt, Functions

CONSTANT SlowRate  \* below it one full datagram takes longer than targetQueue

Realtime == 0
Small == 1
Bulk == 2

MinimumShare(lane) == lane.rate \div 20    \* minimumClassShare
HalfOf(rate) == rate \div 2                \* smallClassShare

\* A lane: its rate, whether the peer's silence makes it suspect (no bulk then), and
\* whether its capacity was ever found.
Eligible(lane, c) == c # Bulk \/ ~lane.suspect

----------------------------------------------------------------------------
\* What is left of the class's demand before lane i, had no lane a guarantee.
assignable(lanes, free, c, need, i) ==
  LET left[j \in 1..Len(lanes)] ==
        IF j = 1 THEN need
        ELSE left[j - 1] - (IF Eligible(lanes[j - 1], c) THEN Min({left[j - 1], free[j - 1]}) ELSE 0)
  IN Min({left[i], free[i]})

\* The first of the lanes with the most room left guarantees the next class; 0 when
\* no lane may carry it.
guarantor(lanes, free, c, need) ==
  LET able == {i \in DOMAIN lanes : Eligible(lanes[i], c + 1)}
      room(i) == free[i] - assignable(lanes, free, c, need, i)
  IN IF able = {} THEN 0
     ELSE Min({i \in able : \A j \in able : room(i) >= room(j)})

\* bulkElsewhere, and a lane slow enough for it to matter.
realtimeLane(lane, elsewhere) == lane.found /\ elsewhere /\ lane.rate < SlowRate

\* MUTANT: the guaranteed minimum of the lower classes is not kept free.
roomUnguarded(lanes, free, c, g, half, i) ==
  IF half[i] THEN HalfOf(free[i]) ELSE free[i]

\* The room for a class on lane i: g's lane keeps the minimum of the classes below;
\* half[i] holds small datagrams to half of it.
room(lanes, free, c, g, half, i) ==
  LET guarded == free[i] - (IF i = g THEN (Bulk - c) * MinimumShare(lanes[i]) ELSE 0)
  IN IF half[i] THEN Min({guarded, HalfOf(free[i])}) ELSE guarded

\* One class's reservations, lane by lane in the order of latency.
taken(lanes, free, c, need, g, half) ==
  LET take[i \in DOMAIN lanes] ==
        IF Eligible(lanes[i], c)
        THEN Max({0, Min({need - SumFunction([j \in 1..(i - 1) |-> take[j]]),
                          room(lanes, free, c, g, half, i)})})
        ELSE 0
  IN take

\* reserveCopies: a copy travels on another lane than its original.  Those of a
\* suspect lane are forced, the others share the budget.
copiesOf(lanes, free, rt, budget) ==
  LET originals == SumFunction(rt)
      suspect == SumFunctionOnSet(rt, {i \in DOMAIN lanes : lanes[i].suspect})
      forced(i) == suspect - (IF lanes[i].suspect THEN rt[i] ELSE 0)
      need == Min({budget, originals})
  IN [i \in DOMAIN lanes |->
        IF originals = 0 \/ Len(lanes) < 2 THEN 0
        ELSE Min({free[i], Max({forced(i), (need * (originals - rt[i])) \div originals})})]

Less(f, g) == [i \in DOMAIN f |-> f[i] - g[i]]

\* reserve.  The offer: demand per small class with its headroom, the copy budget and
\* whether bulk waits.
reserve(lanes, offer) ==
  LET all == [i \in DOMAIN lanes |-> lanes[i].rate]
      g1 == guarantor(lanes, all, Realtime, offer.realtime)
      rt == taken(lanes, all, Realtime, offer.realtime, g1, [i \in DOMAIN lanes |-> FALSE])
      copies == copiesOf(lanes, Less(all, rt), rt, offer.budget)
      free == Less(Less(all, rt), copies)
      quiet == \E i \in DOMAIN lanes : Eligible(lanes[i], Bulk) /\ rt[i] = 0
      kept == [i \in DOMAIN lanes |-> realtimeLane(lanes[i], quiet /\ rt[i] > 0)]
      half == [i \in DOMAIN lanes |-> offer.bulk /\ ~kept[i]]
      g2 == guarantor(lanes, free, Small, offer.small)
  IN [lanes |-> lanes, reserved |-> <<rt, taken(lanes, free, Small, offer.small, g2, half)>>,
      copies |-> copies, kept |-> kept, shared |-> offer.bulk, guarantors |-> <<g1, g2>>]

\* allowed: what the higher classes have not reserved of lane i, and at least the
\* minimum on the lane that guarantees it.
allowed(plan, c, i) ==
  LET lane == plan.lanes[i]
      guaranteed(k) == k > Realtime /\ plan.guarantors[k] = i
      floor == IF guaranteed(c) THEN MinimumShare(lane) ELSE 0
      higher == SumFunction([k \in 1..c |-> plan.reserved[k][i]])
      lower == Cardinality({k \in (c + 1)..Bulk : guaranteed(k)}) * MinimumShare(lane)
      copies == IF c > Realtime THEN plan.copies[i] ELSE 0
  IN IF c = Bulk /\ plan.kept[i] THEN floor
     ELSE IF c = Small /\ plan.shared /\ ~plan.kept[i] THEN Max({plan.reserved[2][i], floor})
     ELSE Max({0, floor, lane.rate - higher - copies - lower})

----------------------------------------------------------------------------
(* What a division of the lanes promises.                                  *)

\* No lane is promised to the small classes and their copies beyond its rate.
Fits(plan) ==
  \A i \in DOMAIN plan.lanes :
    LET parts == {plan.reserved[1][i], plan.reserved[2][i], plan.copies[i]} IN
      /\ \A x \in parts : x >= 0
      /\ plan.reserved[1][i] + plan.reserved[2][i] + plan.copies[i] <= plan.lanes[i].rate

\* A lower class that some lane may carry has a lane that allows it its minimum share.
Served(plan) ==
  \A c \in {Small, Bulk} :
    (\E i \in DOMAIN plan.lanes : Eligible(plan.lanes[i], c)) =>
      \E i \in DOMAIN plan.lanes :
        Eligible(plan.lanes[i], c) /\ allowed(plan, c, i) >= MinimumShare(plan.lanes[i])

\* Real-time datagrams leave the minimum of small ones free on the lane that has it.
LeavesMinimum(plan) ==
  LET g == plan.guarantors[1] IN
    g # 0 => plan.reserved[1][g] + 2 * MinimumShare(plan.lanes[g]) <= plan.lanes[g].rate
=============================================================================
