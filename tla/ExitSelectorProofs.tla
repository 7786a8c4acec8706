------------------------ MODULE ExitSelectorProofs ------------------------
(***************************************************************************)
(* Proofs about ExitSelector, for any number of exits, any cooldown and    *)
(* any bounds on what happens: the engine, the selector and the            *)
(* subscription never disagree on the active exit, and no switch comes     *)
(* without its cause.                                                      *)
(***************************************************************************)
EXTENDS ExitSelector, TLAPS

\* Why a switch has its cause.  A controller between raising the signal and
\* calling the selector has it latched; and the two clocks of evaluateAuto stand
\* so that the cooldown since the last switch covers the one since the last
\* RTT-driven switch.
Causes ==
  /\ cooling \in 0..Cooldown /\ rested \in 0..cooling /\ commands \in Nat
  /\ latched \in [Exits -> BOOLEAN] /\ DOMAIN firing = Exits
  /\ \A e \in Exits : firing[e] \in {"raised", "calls"} => latched[e]

\* A switch, done or refused, keeps the three records of the active exit
\* together (switchLocked, resubscribeLocked).
LEMMA SwitchKeeps ==
  ASSUME NEW to, OneActiveExit, switch(to)
  PROVE  OneActiveExit'
BY DEF OneActiveExit, switch

\* The engine routes to the exit the selector reports, and exactly that exit's
\* controller can promote off it.
THEOREM ActiveExitAgreed == Spec => []OneActiveExit
<1>1. Init => OneActiveExit
  BY DEF Init, Boot, OneActiveExit
<1>2. OneActiveExit /\ [Next]_vars => OneActiveExit'
  <2> SUFFICES ASSUME OneActiveExit, [Next]_vars PROVE OneActiveExit'
    OBVIOUS
  <2>1. ASSUME NEW e \in Exits, onActiveExhausted(e) PROVE OneActiveExit'
    BY <2>1, SwitchKeeps DEF onActiveExhausted, OneActiveExit
  <2>2. ASSUME NEW e \in Exits, Observe(e) \/ Notice(e) \/ Exhaust(e) \/ ReadSubscriber(e)
                                  \/ Persist(e) \/ Verdict(e) \/ SessionChange(e)
        PROVE OneActiveExit'
    BY <2>2 DEF Observe, Notice, Exhaust, ReadSubscriber, Persist, Verdict, SessionChange,
                choice, OneActiveExit
  <2>3. ASSUME NEW e \in Exits, NEW t \in 0..MaxRTT, RTTChange(e, t) PROVE OneActiveExit'
    BY <2>3 DEF RTTChange, choice, OneActiveExit
  <2>4. CASE retryExhaustedPromotion
    BY <2>4, SwitchKeeps DEF retryExhaustedPromotion
  <2>5. CASE evaluateAuto
    BY <2>5, SwitchKeeps DEF evaluateAuto
  <2>6. CASE SetAuto
    BY <2>6 DEF SetAuto, OneActiveExit
  <2>7. ASSUME NEW e \in Exits, SetPeer(e) PROVE OneActiveExit'
    BY <2>7, SwitchKeeps DEF SetPeer, OneActiveExit
  <2>8. CASE Tick
    BY <2>8 DEF Tick, OneActiveExit
  <2>9. CASE UNCHANGED vars
    BY <2>9 DEF vars, choice, OneActiveExit
  <2> QED
    BY <2>1, <2>2, <2>3, <2>4, <2>5, <2>6, <2>7, <2>8, <2>9 DEF Next, poll
<1> QED
  BY <1>1, <1>2, PTL DEF Spec

\* A switch restarts the cooldown or changes nothing.
LEMMA SwitchCools ==
  ASSUME NEW to, switch(to)
  PROVE  cooling' = Cooldown \/ (UNCHANGED cooling /\ UNCHANGED active)
BY DEF switch

\* The causes are kept by every step.
LEMMA CausesKept == Causes /\ [Next]_vars => Causes'
<1> SUFFICES ASSUME Causes, [Next]_vars PROVE Causes'
  OBVIOUS
<1> USE ExitAssumption DEF Causes
<1>1. ASSUME NEW e \in Exits, onActiveExhausted(e) PROVE Causes'
  <2>1. cooling' \in 0..Cooldown /\ rested' \in 0..cooling' /\ commands' \in Nat
    BY <1>1, SwitchCools DEF onActiveExhausted
  <2>2. firing' = [firing EXCEPT ![e] = "no"] /\ UNCHANGED latched
    BY <1>1 DEF onActiveExhausted
  <2> QED
    BY <2>1, <2>2
<1>2. ASSUME NEW e \in Exits, Observe(e) PROVE Causes'
  BY <1>2 DEF Observe, choice, bounds
<1>3. ASSUME NEW e \in Exits, Exhaust(e) PROVE Causes'
  BY <1>3 DEF Exhaust, choice, bounds
<1>4. ASSUME NEW e \in Exits, ReadSubscriber(e) PROVE Causes'
  BY <1>4 DEF ReadSubscriber, choice, bounds
<1>5. ASSUME NEW e \in Exits,
             Notice(e) \/ Persist(e) \/ Verdict(e) \/ SessionChange(e)
      PROVE Causes'
  BY <1>5 DEF Notice, Persist, Verdict, SessionChange, choice, signals, bounds
<1>6. ASSUME NEW e \in Exits, NEW t \in 0..MaxRTT, RTTChange(e, t) PROVE Causes'
  BY <1>6 DEF RTTChange, choice, signals, bounds
<1>7. CASE retryExhaustedPromotion
  BY <1>7, SwitchCools DEF retryExhaustedPromotion, signals
<1>8. CASE evaluateAuto
  BY <1>8, SwitchCools DEF evaluateAuto, signals
<1>9. CASE SetAuto
  BY <1>9 DEF SetAuto, signals
<1>10. ASSUME NEW e \in Exits, SetPeer(e) PROVE Causes'
  BY <1>10, SwitchCools DEF SetPeer, signals
<1>11. CASE Tick
  BY <1>11 DEF Tick, Minus1, signals, bounds
<1>12. CASE UNCHANGED vars
  BY <1>12 DEF vars, choice, signals, bounds
<1> QED
  BY <1>1, <1>2, <1>3, <1>4, <1>5, <1>6, <1>7, <1>8, <1>9, <1>10, <1>11, <1>12 DEF Next, poll

\* A standing choice of the operator is left only off an exit whose controller
\* has signalled exhaustion, and RTT-driven switches are a cooldown apart.
THEOREM SwitchesHaveCauses == Spec => NoSwitchWithoutCause
<1> DEFINE Caused == /\ mode # AutoMode /\ mode' = mode /\ commands' = commands /\ active' # active
                          => latched[active]
                     /\ rested' > rested => rested = 0
<1>1. Init => Causes
  BY ExitAssumption DEF Init, Boot, Causes
<1>2. Causes /\ [Next]_vars => [Caused]_vars
  <2> SUFFICES ASSUME Causes, Next PROVE Caused
    OBVIOUS
  <2> USE ExitAssumption DEF Causes
  <2>1. ASSUME NEW e \in Exits, onActiveExhausted(e) PROVE Caused
    BY <2>1 DEF onActiveExhausted
  <2>2. ASSUME NEW e \in Exits, Observe(e) \/ Notice(e) \/ Exhaust(e) \/ ReadSubscriber(e)
                                  \/ Persist(e) \/ Verdict(e) \/ SessionChange(e)
        PROVE Caused
    BY <2>2 DEF Observe, Notice, Exhaust, ReadSubscriber, Persist, Verdict, SessionChange, choice
  <2>3. ASSUME NEW e \in Exits, NEW t \in 0..MaxRTT, RTTChange(e, t) PROVE Caused
    BY <2>3 DEF RTTChange, choice
  <2>4. CASE retryExhaustedPromotion
    BY <2>4 DEF retryExhaustedPromotion, Exhausted
  <2>5. CASE evaluateAuto
    BY <2>5 DEF evaluateAuto
  <2>6. CASE SetAuto
    BY <2>6 DEF SetAuto
  <2>7. ASSUME NEW e \in Exits, SetPeer(e) PROVE Caused
    BY <2>7 DEF SetPeer
  <2>8. CASE Tick
    BY <2>8 DEF Tick, Minus1
  <2> QED
    BY <2>1, <2>2, <2>3, <2>4, <2>5, <2>6, <2>7, <2>8 DEF Next, poll
<1> QED
  BY <1>1, <1>2, CausesKept, PTL DEF Spec, NoSwitchWithoutCause
============================================================================
