--------------------------- MODULE ExitController ---------------------------
(***************************************************************************)
(* What a hub-failover controller promises the exit selector: the          *)
(* exitController interface of internal/device/exitselector.go.  The       *)
(* controller watches one peer.  It may signal that the peer's endpoint    *)
(* list is exhausted, once per outage it has observed: the signal stays    *)
(* latched until the controller itself sees a path up again.               *)
(***************************************************************************)
CONSTANTS Never, Brief, Long   \* how long the outage has been observed

VARIABLES
  down,      \* every path of the peer is down
  latched,   \* exhaustedLatched
  outage     \* the observed outage: not seen, shorter than the dwell, longer

cvars == <<down, latched, outage>>

Init == down = TRUE /\ latched = FALSE /\ outage = Never

\* The paths go down, or one comes back.
Verdict == down' = ~down /\ UNCHANGED <<latched, outage>>

\* check with a path up.
Observe == ~down /\ latched' = FALSE /\ outage' = Never /\ UNCHANGED down

\* check with every path down, before the dwell is over.
Notice == /\ down /\ outage = Never
          /\ outage' = Brief
          /\ UNCHANGED <<down, latched>>

\* The outage outlasts the settle dwell.
Persist == outage = Brief /\ outage' = Long /\ UNCHANGED <<down, latched>>

\* check raises the signal.
Exhaust == /\ down /\ outage = Long /\ ~latched
           /\ latched' = TRUE
           /\ UNCHANGED <<down, outage>>

Next == Verdict \/ Observe \/ Notice \/ Persist \/ Exhaust

Spec == Init /\ [][Next]_cvars
=============================================================================
