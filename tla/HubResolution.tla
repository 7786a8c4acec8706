--------------------------- MODULE HubResolution ---------------------------
(***************************************************************************)
(* The re-resolution controller (internal/device/resolution.go) beside the *)
(* hub-failover controller it feeds.  Its loop looks up the active         *)
(* hostname when every path has just gone down, and every hostname when    *)
(* the poll is due.  A lookup runs without a lock: the failover loop may   *)
(* advance, and the record may change, before its answer is published.     *)
(* A failed or empty lookup publishes nothing.                             *)
(*                                                                         *)
(* DNS is external: record holds what a lookup of a hostname answers, in   *)
(* the order of orderAddrPorts and after its family filter.  A TTL only    *)
(* shortens the wait for the next poll.                                    *)
(***************************************************************************)
EXTENDS HubFailover

CONSTANTS
  PollInterval,  \* [dns] poll interval, in ticks
  Edited,        \* bound: the hostnames whose records change
  MaxEdits       \* bound: changes of a record

ASSUME PollAssumption ==
  PollInterval \in Nat \ {0} /\ Names # {} /\ Edited \subseteq Names /\ MaxEdits \in Nat

VARIABLES
  record,       \* what DNS holds
  resolver,     \* where the loop is
  pollIn,       \* ticks until nextPollAt
  lastAllDown,
  edits

rvars == <<record, resolver, pollIn, lastAllDown, edits>>
allvars == <<vars, rvars>>

Resting == [at |-> "idle", job |-> "poll", spec |-> 0, answer |-> <<>>]
At(step, job, s) == [at |-> step, job |-> job, spec |-> s, answer |-> <<>>]

\* The first hostname, and the one after s; 0 for none.
After(s) == LET later == {t \in Names : t > s}
            IN  IF later = {} THEN 0 ELSE CHOOSE t \in later : \A u \in later : t <= u

----------------------------------------------------------------------------
(* step.                                                                   *)

\* checkLivenessLoss: on the edge into hub loss the active spec is looked up, if
\* it is a hostname (targetFor).
LossBegins ==
  /\ resolver = Resting
  /\ allDown /\ ~lastAllDown /\ active.spec \in Names
  /\ lastAllDown' = TRUE
  /\ resolver' = At("asked", "loss", active.spec)
  /\ UNCHANGED <<vars, record, pollIn, edits>>

\* Otherwise the poll starts when it is due.
PollBegins ==
  /\ resolver = Resting
  /\ ~(allDown /\ ~lastAllDown /\ active.spec \in Names)
  /\ lastAllDown' = allDown
  /\ resolver' = IF pollIn = 0 THEN At("asked", "poll", After(0)) ELSE Resting
  /\ UNCHANGED <<vars, record, pollIn, edits>>

\* The lookup answers or, with an empty answer, fails.
Lookup(answer) ==
  /\ resolver.at = "asked"
  /\ resolver' = [at |-> "answered", job |-> resolver.job, spec |-> resolver.spec, answer |-> answer]
  /\ UNCHANGED <<vars, record, pollIn, lastAllDown, edits>>
LookupSucceeds == resolver.at = "asked" /\ Lookup(record[resolver.spec])
LookupFails == Lookup(<<>>)

\* MUTANT: a standby's answer is dropped.
PublishActiveOnly ==
  IF resolver.answer = <<>> \/ resolver.spec # active.spec THEN UNCHANGED vars
  ELSE Resolve(resolver.spec, resolver.answer)

\* resolveTarget's last part: an empty answer leaves the spec as it is.
Publish == IF resolver.answer = <<>> THEN UNCHANGED vars
                                     ELSE Resolve(resolver.spec, resolver.answer)

\* clampPollDelay: the interval, or a shorter TTL.
Rearm == pollIn' \in 1..PollInterval

\* The end of checkLivenessLoss.  The poll is not due any more.
PublishLoss ==
  /\ resolver.at = "answered" /\ resolver.job = "loss"
  /\ Publish
  /\ Rearm
  /\ resolver' = Resting
  /\ UNCHANGED <<record, lastAllDown, edits>>

\* pollAll goes on to the next hostname; step re-arms after the last.
PublishPoll ==
  /\ resolver.at = "answered" /\ resolver.job = "poll"
  /\ Publish
  /\ LET next == After(resolver.spec)
     IN  IF next = 0 THEN Rearm /\ resolver' = Resting
                     ELSE UNCHANGED pollIn /\ resolver' = At("asked", "poll", next)
  /\ UNCHANGED <<record, lastAllDown, edits>>

step == LossBegins \/ PollBegins \/ PublishLoss \/ PublishPoll

----------------------------------------------------------------------------
ChangeRecord(s, new) ==
  /\ edits < MaxEdits /\ edits' = edits + 1
  /\ record[s] # new
  /\ record' = [record EXCEPT ![s] = new]
  /\ UNCHANGED <<vars, resolver, pollIn, lastAllDown>>

ResolvedTick ==
  /\ Tick
  /\ pollIn' = IF pollIn = 0 THEN 0 ELSE pollIn - 1
  /\ UNCHANGED <<record, resolver, lastAllDown, edits>>

\* newResolution: the first step polls at once.
ResolvedInit ==
  /\ Init
  /\ record \in [Names -> Expansions]
  /\ \A s \in Names : addrs[s] \in {<<>>, record[s]}
  /\ resolver = Resting /\ pollIn = 0 /\ lastAllDown = FALSE /\ edits = 0

ResolvedNext ==
  \/ check /\ UNCHANGED rvars
  \/ step
  \/ LookupSucceeds
  \/ LookupFails
  \/ \E s \in Edited, new \in Expansions \cup {<<>>} : ChangeRecord(s, new)
  \/ \E up \in SUBSET Addrs : ChangeHubs(up) /\ UNCHANGED rvars
  \/ Verdict /\ UNCHANGED rvars
  \/ ResolvedTick

\* Both loops and the probe plane run on tickers; a lookup ends, by its timeout at
\* the latest, and a name that has a record does not fail for ever.
ResolvedFairness ==
  /\ WF_allvars(check /\ UNCHANGED rvars)
  /\ WF_allvars(step)
  /\ WF_allvars(LookupSucceeds \/ LookupFails)
  /\ \A s \in Names : SF_allvars(LookupSucceeds /\ resolver.spec = s)
  /\ WF_allvars(Verdict /\ UNCHANGED rvars)
  /\ WF_allvars(ResolvedTick)

ResolvedSpec == ResolvedInit /\ [][ResolvedNext]_allvars /\ ResolvedFairness

----------------------------------------------------------------------------
(* Properties.                                                             *)

\* Both promises are kept with the two loops together.  Whatever order lookups
\* and failovers come in, the failover controller sees only what its own
\* specification allows a resolver to do: one spec at a time, and never an empty
\* list, so a hostname that once resolved keeps its addresses whatever DNS does
\* (resolveTarget); and towards the exit selector it behaves as ExitController.
PromisesKept == Init /\ [][Next]_vars /\ ControllerPromise

\* Once DNS is quiet, every hostname that has a record carries it, the standbys
\* included, although losses keep pushing the poll out (step, pollAll).
NamesFollow ==
  <>[](\A s \in Names : record[s] # <<>> => addrs[s] = record[s])
============================================================================
