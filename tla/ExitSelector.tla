---------------------------- MODULE ExitSelector ----------------------------
(***************************************************************************)
(* Which exit-capable peer carries the default route on an edge with       *)
(* several (internal/device/exitselector.go).  Four goroutines meet under  *)
(* s.mu: the operator's command, the RTT evaluation in auto mode, the      *)
(* retry loop, and the poll loop of the active exit's failover controller, *)
(* whose exhaustion signal promotes a healthy standby.  The controller     *)
(* raises the signal under its own lock, releases it, reads the            *)
(* subscriber, releases again, and only then calls: the selector may have  *)
(* moved on in between.                                                    *)
(*                                                                         *)
(* The controllers take the steps of ExitController, which HubFailover     *)
(* implements.  Time is counted in ticks.  Of the engine, only the owner   *)
(* of the default-route prefixes is modelled; an IpcSet may be refused,    *)
(* and then changes nothing.                                               *)
(***************************************************************************)
EXTENDS Integers, Sequences, SequencesExt

CONSTANTS
  Exits, Order,  \* the exit-capable peers, and their order in the configuration
  AutoMode,      \* the mode "auto"
  Cooldown,      \* autoExitCooldown
  MaxRTT,        \* bound: round-trip times, 0 for unmeasured
  MaxEvents,     \* bound: changes of the world
  MaxCommands,   \* bound: commands of the operator
  MaxRefusals    \* bound: refused IpcSets

ASSUME ExitAssumption ==
  /\ ToSet(Order) = Exits /\ IsInjective(Order) /\ AutoMode \notin Exits
  /\ {Cooldown, MaxRTT, MaxEvents, MaxCommands, MaxRefusals} \subseteq Nat

VARIABLES
  down, latched, outage,  \* the controllers' state, by exit
  firing,       \* a controller's check: not firing, raised, calling
  subscribed,   \* the exits whose controller has the selector's callback
  established,  \* the exits whose WireGuard session is established
  rtt,          \* best RTT of an exit's paths
  active, mode,
  owner,        \* the owner of the default-route prefixes in the engine
  cooling,      \* ticks until lastSwitch is a cooldown old
  rested,       \* history: the same, for the last RTT-driven switch
  events, commands, refusals

signals == <<down, latched, outage, firing>>
world == <<established, rtt>>
choice == <<active, mode, owner, subscribed, cooling, rested>>
bounds == <<events, commands, refusals>>
vars == <<signals, world, choice, bounds>>

Never == "never"
Brief == "brief"
Long == "long"

----------------------------------------------------------------------------
(* Health and switching.                                                   *)

\* deviceExitHealth.healthy: a path up and an established session.
healthy(e) == ~down[e] /\ e \in established

\* The first healthy standby in configuration order.
Standbys == SelectSeq(Order, LAMBDA e : e # active /\ healthy(e))

\* The healthy exit of the lowest RTT, the first of several.
Measured == SelectSeq(Order, LAMBDA e : healthy(e) /\ rtt[e] > 0)
Best == Measured[SelectInSeq(Measured, LAMBDA e : \A f \in ToSet(Measured) : rtt[e] <= rtt[f])]

\* MUTANT: the old exit stays subscribed.
switchKeepsSubscription(to) ==
  \/ /\ owner' = to /\ active' = to
     /\ subscribed' = subscribed \cup {to}
     /\ cooling' = Cooldown
     /\ UNCHANGED refusals
  \/ /\ refusals < MaxRefusals /\ refusals' = refusals + 1
     /\ UNCHANGED <<owner, active, subscribed, cooling>>

\* switchLocked: one IpcSet moves the prefixes; the subscription follows.
switch(to) ==
  \/ /\ owner' = to /\ active' = to
     /\ subscribed' = (subscribed \ {active}) \cup {to}
     /\ cooling' = Cooldown
     /\ UNCHANGED refusals
  \/ /\ refusals < MaxRefusals /\ refusals' = refusals + 1
     /\ UNCHANGED <<owner, active, subscribed, cooling>>

----------------------------------------------------------------------------
(* The controllers' poll loops.                                            *)

Observe(e) ==
  /\ firing[e] = "no" /\ ~down[e]
  /\ latched' = [latched EXCEPT ![e] = FALSE]
  /\ outage' = [outage EXCEPT ![e] = Never]
  /\ UNCHANGED <<down, firing, world, choice, bounds>>

Notice(e) ==
  /\ firing[e] = "no" /\ down[e] /\ outage[e] = Never
  /\ outage' = [outage EXCEPT ![e] = Brief]
  /\ UNCHANGED <<down, latched, firing, world, choice, bounds>>

Exhaust(e) ==
  /\ firing[e] = "no" /\ down[e] /\ outage[e] = Long /\ ~latched[e]
  /\ latched' = [latched EXCEPT ![e] = TRUE]
  /\ firing' = [firing EXCEPT ![e] = "raised"]
  /\ UNCHANGED <<down, outage, world, choice, bounds>>

\* check reads the subscriber under the lock again.
ReadSubscriber(e) ==
  /\ firing[e] = "raised"
  /\ firing' = [firing EXCEPT ![e] = IF e \in subscribed THEN "calls" ELSE "no"]
  /\ UNCHANGED <<down, latched, outage, world, choice, bounds>>

\* MUTANT: no check that the exit is still active.
AnyExhausted(e) ==
  /\ firing[e] = "calls"
  /\ firing' = [firing EXCEPT ![e] = "no"]
  /\ IF Standbys # <<>> THEN switch(Standbys[1])
     ELSE UNCHANGED <<active, owner, subscribed, cooling, refusals>>
  /\ UNCHANGED <<down, latched, outage, world, mode, rested, events, commands>>

\* onActiveExhausted.
onActiveExhausted(e) ==
  /\ firing[e] = "calls"
  /\ firing' = [firing EXCEPT ![e] = "no"]
  /\ IF active = e /\ Standbys # <<>> THEN switch(Standbys[1])
     ELSE UNCHANGED <<active, owner, subscribed, cooling, refusals>>
  /\ UNCHANGED <<down, latched, outage, world, mode, rested, events, commands>>

----------------------------------------------------------------------------
(* The selector's own loops and the operator.                              *)

\* The controller's Exhausted.
Exhausted(e) == latched[e] /\ down[e]

\* MUTANT: no retry after the signal.
RetryOnRise ==
  /\ Exhausted(active) /\ firing[active] # "no" /\ Standbys # <<>>
  /\ switch(Standbys[1])
  /\ UNCHANGED <<signals, world, mode, rested, events, commands>>

retryExhaustedPromotion ==
  /\ Exhausted(active) /\ Standbys # <<>>
  /\ switch(Standbys[1])
  /\ UNCHANGED <<signals, world, mode, rested, events, commands>>

evaluateAuto ==
  /\ mode = AutoMode /\ cooling = 0
  /\ Measured # <<>> /\ Best # active
  /\ switch(Best)
  /\ rested' = IF active' # active THEN Cooldown ELSE rested
  /\ UNCHANGED <<signals, world, mode, events, commands>>

\* setMode to auto; the next evaluation does not wait.
SetAuto ==
  /\ commands < MaxCommands /\ commands' = commands + 1
  /\ mode # AutoMode /\ mode' = AutoMode
  /\ cooling' = 0 /\ rested' = 0
  /\ UNCHANGED <<signals, world, active, owner, subscribed, events, refusals>>

\* setMode to a peer; a refused switch leaves the mode.
SetPeer(e) ==
  /\ commands < MaxCommands /\ commands' = commands + 1
  /\ \/ /\ active = e /\ mode' = e
        /\ UNCHANGED <<active, owner, subscribed, cooling, refusals>>
     \/ /\ active # e /\ switch(e)
        /\ mode' = IF active' = e THEN e ELSE mode
  /\ UNCHANGED <<signals, world, rested, events>>

----------------------------------------------------------------------------
(* The world.                                                              *)

Event == events < MaxEvents /\ events' = events + 1

Verdict(e) ==
  /\ Event
  /\ down' = [down EXCEPT ![e] = ~@]
  /\ UNCHANGED <<latched, outage, firing, world, choice, commands, refusals>>

SessionChange(e) ==
  /\ Event
  /\ established' = IF e \in established THEN established \ {e} ELSE established \cup {e}
  /\ UNCHANGED <<signals, rtt, choice, commands, refusals>>

RTTChange(e, t) ==
  /\ Event
  /\ rtt' = [rtt EXCEPT ![e] = t]
  /\ UNCHANGED <<signals, established, choice, commands, refusals>>

\* An outage of e outlasts its controller's dwell.
Persist(e) ==
  /\ outage[e] = Brief
  /\ outage' = [outage EXCEPT ![e] = Long]
  /\ UNCHANGED <<down, latched, firing, world, choice, bounds>>

Minus1(n) == IF n = 0 THEN 0 ELSE n - 1

Tick ==
  /\ cooling' = Minus1(cooling) /\ rested' = Minus1(rested)
  /\ UNCHANGED <<signals, world, active, mode, owner, subscribed, bounds>>

\* newExitSelector, enableAutoPromotion and the configured mode: the first exit
\* is active, or the switch to the configured one has been made.
Boot ==
  /\ latched = [e \in Exits |-> FALSE]
  /\ outage = [e \in Exits |-> Never] /\ firing = [e \in Exits |-> "no"]
  /\ mode \in Exits \cup {AutoMode}
  /\ active = IF mode = AutoMode THEN Order[1] ELSE mode
  /\ owner = active /\ subscribed = {active}
  /\ cooling = (IF active = Order[1] THEN 0 ELSE Cooldown) /\ rested = 0
  /\ events = 0 /\ commands = 0 /\ refusals = 0

Init ==
  /\ Boot
  /\ down = [e \in Exits |-> TRUE] /\ established = {} /\ rtt = [e \in Exits |-> 0]

poll(e) == Observe(e) \/ Notice(e) \/ Exhaust(e) \/ ReadSubscriber(e) \/ onActiveExhausted(e)

Next ==
  \/ \E e \in Exits : poll(e) \/ Persist(e) \/ Verdict(e) \/ SessionChange(e)
  \/ \E e \in Exits, t \in 0..MaxRTT : RTTChange(e, t)
  \/ retryExhaustedPromotion \/ evaluateAuto
  \/ SetAuto \/ \E e \in Exits : SetPeer(e)
  \/ Tick

\* Every loop runs on a ticker, and an outage that stays outlasts its dwell.
Fairness ==
  /\ \A e \in Exits : WF_vars(poll(e)) /\ WF_vars(Persist(e))
  /\ WF_vars(retryExhaustedPromotion) /\ WF_vars(evaluateAuto) /\ WF_vars(Tick)

Spec == Init /\ [][Next]_vars /\ Fairness

----------------------------------------------------------------------------
(* Properties.                                                             *)

\* The engine routes to the exit the selector reports, and exactly that exit's
\* controller can promote off it, after every switch, refused or not, of any
\* goroutine (switchLocked, resubscribeLocked).
OneActiveExit == owner = active /\ subscribed = {active}

\* No switch without its cause.  A standing choice of the operator is left only
\* off an exit whose controller has signalled exhaustion and has not seen it
\* recover (onActiveExhausted, design.md "MANUAL WINS"); and an RTT-driven switch
\* comes a cooldown after the last one, whatever promotions and commands came in
\* between, unless the operator went from a fixed exit to auto (evaluateAuto,
\* design.md "Selection target").
NoSwitchWithoutCause ==
  [][/\ mode # AutoMode /\ mode' = mode /\ commands' = commands /\ active' # active
          => latched[active]
     /\ rested' > rested => rested = 0]_vars

\* Once the world is quiet, egress does not stay on a dead exit while a standby is
\* healthy, although the signal is raised only once and the standby may have come
\* up after it (retryExhaustedPromotion).
NotLeftOnDeadExit == <>[](down[active] => \A e \in Exits : ~healthy(e))
============================================================================
