----------------------------- MODULE ProbePlane -----------------------------
(***************************************************************************)
(* How one end learns which process it is talking to: the probe exchange   *)
(* of internal/telemetry/probe.go, its dispatch in internal/bind           *)
(* (dispatchInbound, adaptivePeer.learn) and Transport.SetRemote of        *)
(* internal/bond, over the paths of one peer.                              *)
(*                                                                         *)
(* The peer (the variable peer) probes every path; its probes carry a      *)
(* hello naming its epoch (Boot, Open generation), except that a padded    *)
(* PMTU probe has padding in place of the hello.  This end reflects them:  *)
(* a session is adopted on a path only when a probe returns the challenge  *)
(* that path's echoes carry now.  Learning the epoch is a second critical  *)
(* section of the same reader, so readers of different paths interleave    *)
(* between the two (reader).  This end also probes, and the peer's replies *)
(* carry its hello too.                                                    *)
(*                                                                         *)
(* Boots are numbered in the order the peer's processes start; the code    *)
(* draws them at random and never compares them for order.  Challenges are *)
(* numbered per path in the order they are drawn, so a drawn one is fresh. *)
(* sent is every frame ever written: a frame may be lost, delayed,         *)
(* duplicated and reordered.                                               *)
(***************************************************************************)
EXTENDS Integers, FiniteSets

CONSTANTS Paths,         \* path IDs of the peer
          Padded,        \* may PMTU probes be sent (the paths are not pinned)
          UpAfter,       \* DefaultUpSuccesses (3 in the code)
          MaxBoot,       \* bound: processes of the peer
          MaxGeneration, \* bound: Opens of one process of the peer
          MaxProbes,     \* bound: probes one process sends on one path
          MaxReplies,    \* bound: replies to this end's probes on one path
          MaxLocal       \* bound: restarts and re-Opens of this end

ASSUME ProbeAssumption ==
    /\ Paths # {} /\ IsFiniteSet(Paths)
    /\ Padded \in BOOLEAN
    /\ UpAfter \in Nat
    /\ MaxBoot \in Nat \ {0}
    /\ MaxGeneration \in Nat \ {0}
    /\ MaxProbes \in Nat
    /\ MaxReplies \in Nat
    /\ MaxLocal \in Nat

VARIABLES peer,       \* the peer's process: boot, gen and one prober per path
          reflector,  \* this end's Reflector: one reflectorPath per path
          restart,    \* lastRestartSession
          reader,     \* what each path's reader holds between accept and learn
          remote,     \* Transport.remote
          announced,  \* how often restarted() was called for each boot
          probed,     \* this end's prober per path: replies so far, high-water
          local,      \* restarts and re-Opens of this end so far
          sent        \* every frame ever written

vars == <<peer, reflector, restart, reader, remote, announced, probed, local, sent>>

Boots == 1 .. MaxBoot
NoEpoch == [boot |-> 0, gen |-> 0]
Epochs == [boot : Boots, gen : 1 .. MaxGeneration]
Nobody == 0
NoSeq == -1                     \* AntiReplay.have = false
NoChallenge == 0                \* learnedChallenge before any echo
PeerEpoch == [boot |-> peer.boot, gen |-> peer.gen]

\* streak is Liveness.goodStreak, due is ordinaryProbeDue.
FreshProber == [nextSeq |-> 0, learned |-> NoChallenge, high |-> NoSeq, streak |-> 0, due |-> FALSE]

\* A frame is a probe or an echo between the peer and this end, or the peer's
\* reply to a probe of this end.  hello is NoEpoch when the payload is padding.
Probe(p, s, n, c, h) ==
    [kind |-> "probe", path |-> p, session |-> s, seq |-> n, challenge |-> c, hello |-> h]
Echo(p, s, n, c) ==
    [kind |-> "echo", path |-> p, session |-> s, seq |-> n, challenge |-> c, hello |-> NoEpoch]
Reply(p, n, h) ==
    [kind |-> "reply", path |-> p, session |-> Nobody, seq |-> n, challenge |-> NoChallenge, hello |-> h]
NoEcho == Echo(CHOOSE p \in Paths : TRUE, Nobody, NoSeq, NoChallenge)

\* What a reader carries from AcceptProbe or HandleEchoProbe to learn.
Idle == [busy |-> FALSE, hello |-> NoEpoch, adopted |-> FALSE, echo |-> NoEcho]
Holding(h, a, e) == [busy |-> TRUE, hello |-> h, adopted |-> a, echo |-> e]

\* The first challenge of a path is drawn when its first probe arrives.  Nobody
\* can know it before, so it is drawn here; drawChallenge never returns 0.
FreshPath(c) == [challenge |-> c, adopted |-> FALSE, session |-> Nobody, high |-> NoSeq]

Init ==
    /\ peer = [boot |-> 1, gen |-> 1, prober |-> [p \in Paths |-> FreshProber]]
    /\ reflector = [p \in Paths |-> FreshPath(1)]
    /\ restart = Nobody
    /\ reader = [p \in Paths |-> Idle]
    /\ remote = NoEpoch
    /\ announced = [b \in Boots |-> 0]
    /\ probed = [p \in Paths |-> [nextSeq |-> 0, high |-> NoSeq]]
    /\ local = 0
    /\ sent = {}

-----------------------------------------------------------------------------
(***************************************************************************)
(* The peer.                                                               *)
(***************************************************************************)

\* One probe slot of emitProbes: the next sequence number and the challenge
\* learned last, with a hello (h an epoch) or padded (h = NoEpoch).
Emit(p, h) ==
    LET pr == peer.prober[p] IN
    /\ pr.nextSeq < MaxProbes
    /\ sent' = sent \cup {Probe(p, peer.boot, pr.nextSeq, pr.learned, h)}
    /\ peer' = [peer EXCEPT !.prober[p] =
          [pr EXCEPT !.nextSeq = pr.nextSeq + 1, !.due = (h = NoEpoch)]]
    /\ UNCHANGED <<reflector, restart, reader, remote, announced, probed, local>>

SendProbe(p) == Emit(p, PeerEpoch)

\* PMTU discovery probes a path that is up, and never in two slots running.
SendPaddedProbe(p) ==
    /\ Padded
    /\ peer.prober[p].streak >= UpAfter
    /\ ~ peer.prober[p].due
    /\ Emit(p, NoEpoch)

\* A fresh echo of this boot's own probe teaches the challenge and is a
\* heartbeat.  A path may stay up through any silence (RideThrough).
HandleEchoProbe(m) ==
    LET pr == peer.prober[m.path] IN
    /\ m.kind = "echo"
    /\ m.session = peer.boot
    /\ m.seq > pr.high
    /\ peer' = [peer EXCEPT !.prober[m.path] =
          [pr EXCEPT !.high = m.seq, !.learned = m.challenge,
                     !.streak = IF pr.streak < UpAfter THEN pr.streak + 1 ELSE pr.streak]]
    /\ UNCHANGED <<reflector, restart, reader, remote, announced, probed, local, sent>>

\* The peer's reflector answers a probe of this end with its own hello.
SendReply(p) ==
    /\ probed[p].nextSeq < MaxReplies
    /\ probed' = [probed EXCEPT ![p].nextSeq = @ + 1]
    /\ sent' = sent \cup {Reply(p, probed[p].nextSeq, PeerEpoch)}
    /\ UNCHANGED <<peer, reflector, restart, reader, remote, announced, local>>

\* The engine closes and reopens the peer's Bind: the generation grows, the
\* probers stay.
PeerReopen ==
    /\ peer.gen < MaxGeneration
    /\ peer' = [peer EXCEPT !.gen = @ + 1]
    /\ UNCHANGED <<reflector, restart, reader, remote, announced, probed, local, sent>>

\* Another process: a new session ID, probe sequences from 0, no challenge.
PeerRestart ==
    /\ peer.boot < MaxBoot
    /\ peer' = [boot |-> peer.boot + 1, gen |-> 1, prober |-> [p \in Paths |-> FreshProber]]
    /\ UNCHANGED <<reflector, restart, reader, remote, announced, probed, local, sent>>

-----------------------------------------------------------------------------
(***************************************************************************)
(* This end: acceptLocked, then learn.                                     *)
(***************************************************************************)

Current(m) == LET st == reflector[m.path] IN st.adopted /\ m.session = st.session
Proven(m)  == m.challenge = reflector[m.path].challenge

\* A probe of the adopted session that is not newer than the last one accepted.
AcceptReplay(m) ==
    /\ Current(m)
    /\ m.seq <= reflector[m.path].high
    /\ UNCHANGED <<reflector, restart, reader>>

AcceptCurrent(m) ==
    /\ Current(m)
    /\ m.seq > reflector[m.path].high
    /\ reflector' = [reflector EXCEPT ![m.path].high = m.seq]
    /\ reader' = [reader EXCEPT ![m.path] =
          Holding(m.hello, FALSE, Echo(m.path, m.session, m.seq, reflector[m.path].challenge))]
    /\ UNCHANGED restart

\* MUTANT: adoption does not rotate the challenge.
AdoptedKeepsChallenge(m) ==
    [challenge |-> reflector[m.path].challenge, adopted |-> TRUE, session |-> m.session, high |-> m.seq]

\* The adopted state of a path, with the challenge the next adoption must return.
Adopted(m) ==
    [challenge |-> reflector[m.path].challenge + 1, adopted |-> TRUE, session |-> m.session, high |-> m.seq]

\* The session of the last restart signal.  dispatchInbound ignores the signal
\* itself, which is raised when this changes.
Surface(m) == IF reflector[m.path].adopted THEN m.session ELSE restart

AcceptAdopted(m) ==
    /\ ~ Current(m)
    /\ Proven(m)
    /\ reflector' = [reflector EXCEPT ![m.path] = Adopted(m)]
    /\ restart' = Surface(m)
    /\ reader' = [reader EXCEPT ![m.path] =
          Holding(m.hello, TRUE, Echo(m.path, m.session, m.seq, Adopted(m).challenge))]

\* Reflected, so that a live peer learns the challenge, but not learned from.
AcceptBootstrap(m) ==
    /\ ~ Current(m)
    /\ ~ Proven(m)
    /\ reader' = [reader EXCEPT ![m.path] =
          Holding(NoEpoch, FALSE, Echo(m.path, m.session, m.seq, reflector[m.path].challenge))]
    /\ UNCHANGED <<reflector, restart>>

AcceptProbe(m) ==
    /\ m.kind = "probe"
    /\ ~ reader[m.path].busy
    /\ AcceptReplay(m) \/ AcceptCurrent(m) \/ AcceptAdopted(m) \/ AcceptBootstrap(m)
    /\ UNCHANGED <<peer, remote, announced, probed, local, sent>>

\* A fresh reply to this end's own probe.
AcceptReply(m) ==
    /\ m.kind = "reply"
    /\ ~ reader[m.path].busy
    /\ m.seq > probed[m.path].high
    /\ probed' = [probed EXCEPT ![m.path].high = m.seq]
    /\ reader' = [reader EXCEPT ![m.path] = Holding(m.hello, FALSE, NoEcho)]
    /\ UNCHANGED <<peer, reflector, restart, remote, announced, local, sent>>

\* MUTANT: no boot is accepted after the first.
AcceptsOnlyFirst(r, e, adopted) ==
    /\ e # NoEpoch
    /\ r = NoEpoch \/ (e.boot = r.boot /\ e.gen > r.gen)

\* SetRemote's conditions, in the order the code tests them.
Accepts(r, e, adopted) ==
    /\ e # r
    /\ e # NoEpoch
    /\ r # NoEpoch => /\ e.boot = r.boot => e.gen > r.gen
                      /\ e.boot # r.boot => adopted

\* MUTANT: a new generation counts as a restart.
RestartedByAnyEpoch(r, e, adopted) == Accepts(r, e, adopted) /\ r # NoEpoch

\* Does learn report a restart: another process, and not the first contact.
Restarted(r, e, adopted) == Accepts(r, e, adopted) /\ r # NoEpoch /\ r.boot # e.boot

\* learn, then the echo is written.
Learn(p) ==
    LET h == reader[p] IN
    /\ h.busy
    /\ remote' = IF Accepts(remote, h.hello, h.adopted) THEN h.hello ELSE remote
    /\ announced' = IF Restarted(remote, h.hello, h.adopted)
                    THEN [announced EXCEPT ![h.hello.boot] = @ + 1] ELSE announced
    /\ sent' = IF h.echo = NoEcho THEN sent ELSE sent \cup {h.echo}
    /\ reader' = [reader EXCEPT ![p] = Idle]
    /\ UNCHANGED <<peer, reflector, restart, probed, local>>

\* The engine closes and reopens this end's Bind, once the readers are gone:
\* the transport is new, the reflector stays.
Reopen ==
    /\ local < MaxLocal
    /\ \A p \in Paths : ~ reader[p].busy
    /\ local' = local + 1
    /\ remote' = NoEpoch
    /\ UNCHANGED <<peer, reflector, restart, reader, announced, probed, sent>>

\* This end's process restarts: everything it knew is gone, and its probes have
\* another session ID, so no reply to an older one is accepted.
Restart ==
    /\ local < MaxLocal
    /\ local' = local + 1
    /\ remote' = NoEpoch
    /\ reflector' = [p \in Paths |-> FreshPath(reflector[p].challenge + 1)]
    /\ restart' = Nobody
    /\ reader' = [p \in Paths |-> Idle]
    /\ announced' = [b \in Boots |-> 0]
    /\ probed' = [p \in Paths |-> [probed[p] EXCEPT !.high = probed[p].nextSeq - 1]]
    /\ UNCHANGED <<peer, sent>>

Next ==
    \/ \E p \in Paths : SendProbe(p) \/ SendPaddedProbe(p) \/ SendReply(p) \/ Learn(p)
    \/ \E m \in sent : HandleEchoProbe(m) \/ AcceptProbe(m) \/ AcceptReply(m)
    \/ PeerReopen \/ PeerRestart \/ Reopen \/ Restart

Spec == Init /\ [][Next]_vars

-----------------------------------------------------------------------------
(***************************************************************************)
(* Properties.                                                             *)
(***************************************************************************)

Sequence == Nat \cup {NoSeq}
Hello == Epochs \cup {NoEpoch}
Frame ==
    [kind : {"probe", "echo", "reply"}, path : Paths, session : Boots \cup {Nobody},
     seq : Sequence, challenge : Nat, hello : Hello]
ProberState ==
    [nextSeq : Nat, learned : Nat, high : Sequence, streak : 0 .. UpAfter, due : BOOLEAN]
PeerState == [boot : Boots, gen : 1 .. MaxGeneration, prober : [Paths -> ProberState]]
ReflectorPath ==
    [challenge : Nat \ {NoChallenge}, adopted : BOOLEAN, session : Boots \cup {Nobody},
     high : Sequence]
ReaderState == [busy : BOOLEAN, hello : Hello, adopted : BOOLEAN, echo : Frame]

\* Every variable holds values of the types the code declares; a drawn
\* challenge is never 0, which stands for "none learned" in a probe.
TypeOK ==
    /\ peer \in PeerState
    /\ reflector \in [Paths -> ReflectorPath]
    /\ restart \in Boots \cup {Nobody}
    /\ reader \in [Paths -> ReaderState]
    /\ remote \in Hello
    /\ announced \in [Boots -> Nat]
    /\ probed \in [Paths -> [nextSeq : Nat, high : Sequence]]
    /\ local \in Nat
    /\ sent \subseteq Frame

\* acceptLocked rotates the challenge at every adoption, so a delayed or
\* duplicated probe of a superseded process never takes a path back to it.
NeverReadoptsOlder(p) ==
    reflector[p].adopted /\ reflector'[p].adopted
        => reflector'[p].session >= reflector[p].session
AdoptionMonotone == [][\A p \in Paths : NeverReadoptsOlder(p)]_vars

\* The paths the peer has probed.
Used == {p \in Paths : \E m \in sent : m.path = p /\ m.kind = "probe"}

\* Has the peer's present process sent a padded probe?
HasPadded == \E m \in sent : m.kind = "probe" /\ m.session = peer.boot /\ m.hello = NoEpoch

\* dispatchInbound hands every adoption to learn: once every path in use has
\* adopted the peer's process and no reader is between the two, the transport
\* speaks to that process too, in whatever order the readers of two paths accept
\* and learn.  No later probe could repair it, for a probe of an adopted session
\* changes no boot.  Two cases are exempt, which the code has no answer to: a
\* process that has sent padded probes, one of which may be the probe that is
\* adopted and has no hello to learn from; and an end that was re-Opened, whose
\* new transport may take a late reply of the old process for its first contact.
AdoptionReachesTransport ==
    Used # {} /\ (\A p \in Used : /\ reflector[p].adopted
                                   /\ reflector[p].session = peer.boot
                                   /\ ~ reader[p].busy)
        => remote.boot = peer.boot \/ HasPadded \/ local > 0

\* SetRemote "accepts only a fresh probe's epoch": the transport, once it has
\* followed the peer to a later process, is not taken back to an earlier one.
\* It does NOT hold of two paths: a delayed probe of the old process that
\* returns the second path's challenge, not rotated yet, takes it back.
RemoteMonotone == [][remote'.boot = 0 \/ remote'.boot >= remote.boot]_vars

\* learn calls restarted() once for each process the peer restarts into, and not
\* for a new generation of it, however its probes are delayed and duplicated.
\* (Of one path: with two, RemoteMonotone fails, and this with it.)
AnnouncedOnce == Cardinality(Used) <= 1 => \A b \in Boots : announced[b] <= 1
=============================================================================
