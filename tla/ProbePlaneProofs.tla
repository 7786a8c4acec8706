-------------------------- MODULE ProbePlaneProofs --------------------------
(***************************************************************************)
(* For any number of paths, processes, generations and probes: a path      *)
(* never goes back to a superseded process of the peer; what every path    *)
(* has adopted the transport has learned; and a process reached over one   *)
(* path is announced once.                                                 *)
(*                                                                         *)
(* The inductive invariant says why: every challenge anyone knows is at    *)
(* most the path's live one (KnownChallenges), a session a probe names is  *)
(* at most the live process (KnownSessions), and a probe that holds the    *)
(* live challenge is of a process no older than the adopted one            *)
(* (HoldersAreLater).  An adoption draws a challenge nobody holds.  What   *)
(* the readers hand to learn is Handed, further down.                      *)
(***************************************************************************)
EXTENDS ProbePlane, FiniteSetTheorems, TLAPS

KnownChallenges ==
    /\ \A p \in Paths : /\ peer.prober[p].learned <= reflector[p].challenge
                        /\ reader[p].echo.challenge <= reflector[reader[p].echo.path].challenge
    /\ \A m \in sent : m.challenge <= reflector[m.path].challenge

KnownSessions ==
    /\ \A p \in Paths : reflector[p].adopted => reflector[p].session <= peer.boot
    /\ \A m \in sent : m.kind = "probe" => m.session \in Boots /\ m.session <= peer.boot

HoldersAreLater ==
    \A m \in sent :
        /\ m.kind = "probe"
        /\ m.challenge = reflector[m.path].challenge
        /\ reflector[m.path].adopted
        => m.session >= reflector[m.path].session

\* A reader writes back echoes, not probes.
EchoesOnly == \A p \in Paths : reader[p].echo.kind = "echo"

IInv == TypeOK /\ EchoesOnly /\ KnownChallenges /\ KnownSessions /\ HoldersAreLater

USE ProbeAssumption

LEMMA NoEchoFrame == NoEcho \in Frame /\ NoEcho.challenge = NoChallenge /\ NoEcho.kind = "echo"
<1>1. (CHOOSE p \in Paths : TRUE) \in Paths
  OBVIOUS
<1> QED
  BY <1>1 DEF NoEcho, Echo, Frame, Nobody, Sequence, NoSeq, NoChallenge, Hello

LEMMA FreshTypes == FreshProber \in ProberState /\ Idle \in ReaderState
  BY NoEchoFrame DEF FreshProber, ProberState, Sequence, NoChallenge, Idle, ReaderState, Hello

LEMMA InitIInv == Init => IInv
<1> SUFFICES ASSUME Init PROVE IInv
  OBVIOUS
<1>1. TypeOK
  <2>1. peer \in PeerState
    BY FreshTypes DEF Init, PeerState, Boots
  <2>2. reflector \in [Paths -> ReflectorPath]
    BY DEF Init, FreshPath, ReflectorPath, Sequence, NoChallenge
  <2>3. reader \in [Paths -> ReaderState]
    BY FreshTypes DEF Init
  <2> QED
    BY <2>1, <2>2, <2>3 DEF Init, TypeOK, Hello, Sequence
<1>2. EchoesOnly /\ KnownChallenges /\ KnownSessions /\ HoldersAreLater
  <2>1. \A p \in Paths : reader[p].echo = NoEcho
    BY DEF Init, Idle
  <2>2. NoEcho.path \in Paths
    BY NoEchoFrame DEF Frame
  <2> QED
    BY <2>1, <2>2, NoEchoFrame
    DEF Init, EchoesOnly, KnownChallenges, KnownSessions, HoldersAreLater, FreshProber, FreshPath, NoChallenge
<1> QED
  BY <1>1, <1>2 DEF IInv

\* The types of what the actions read, one fact each.
LEMMA Types ==
    ASSUME TypeOK
    PROVE  /\ peer.boot \in Boots /\ peer.boot \in Nat /\ peer.gen \in 1 .. MaxGeneration
           /\ PeerEpoch \in Hello
           /\ \A p \in Paths :
                /\ peer.prober[p] \in ProberState
                /\ peer.prober[p].nextSeq \in Nat /\ peer.prober[p].learned \in Nat
                /\ reflector[p] \in ReflectorPath
                /\ reflector[p].challenge \in Nat /\ reflector[p].challenge > 0
                /\ reflector[p].session \in Nat
                /\ reader[p] \in ReaderState /\ reader[p].echo \in Frame
           /\ \A m \in sent : /\ m \in Frame /\ m.path \in Paths
                              /\ m.session \in Nat /\ m.challenge \in Nat
<1>1. peer.boot \in Boots /\ peer.boot \in Nat /\ peer.gen \in 1 .. MaxGeneration
  BY DEF TypeOK, PeerState, Boots
<1>2. PeerEpoch \in Hello
  BY <1>1 DEF PeerEpoch, Hello, Epochs
<1>3. \A p \in Paths :
        /\ peer.prober[p] \in ProberState
        /\ peer.prober[p].nextSeq \in Nat /\ peer.prober[p].learned \in Nat
  BY DEF TypeOK, PeerState, ProberState
<1>4. \A p \in Paths :
        /\ reflector[p] \in ReflectorPath
        /\ reflector[p].challenge \in Nat /\ reflector[p].challenge > 0
        /\ reflector[p].session \in Nat
  BY DEF TypeOK, ReflectorPath, NoChallenge, Boots, Nobody
<1>5. \A p \in Paths : reader[p] \in ReaderState /\ reader[p].echo \in Frame
  BY DEF TypeOK, ReaderState
<1>6. \A m \in sent : /\ m \in Frame /\ m.path \in Paths
                      /\ m.session \in Nat /\ m.challenge \in Nat
  BY DEF TypeOK, Frame, Boots, Nobody
<1> QED
  BY <1>1, <1>2, <1>3, <1>4, <1>5, <1>6

\* A step of the peer's prober on one path.
LEMMA ProberStep ==
    ASSUME TypeOK, NEW p \in Paths, NEW new \in ProberState,
           peer' = [peer EXCEPT !.prober[p] = new]
    PROVE  /\ peer' \in PeerState
           /\ peer'.boot = peer.boot
           /\ \A q \in Paths : peer'.prober[q] = IF q = p THEN new ELSE peer.prober[q]
<1>1. peer = [boot |-> peer.boot, gen |-> peer.gen, prober |-> peer.prober]
      /\ peer.prober \in [Paths -> ProberState]
  BY DEF TypeOK, PeerState
<1>2. peer' = [boot |-> peer.boot, gen |-> peer.gen, prober |-> [peer.prober EXCEPT ![p] = new]]
  BY <1>1
<1>3. [peer.prober EXCEPT ![p] = new] \in [Paths -> ProberState]
  BY <1>1
<1> QED
  BY <1>1, <1>2, <1>3, Types DEF PeerState

LEMMA EmitIInv ==
    ASSUME IInv, NEW p \in Paths, NEW h \in Hello, Emit(p, h)
    PROVE  IInv'
<1> DEFINE pr == peer.prober[p]
           new == [pr EXCEPT !.nextSeq = pr.nextSeq + 1, !.due = (h = NoEpoch)]
           m == Probe(p, peer.boot, pr.nextSeq, pr.learned, h)
<1>0. TypeOK /\ EchoesOnly /\ KnownChallenges /\ KnownSessions /\ HoldersAreLater
  BY DEF IInv
<1>1. m \in Frame
  BY <1>0, Types DEF Probe, Frame, Sequence
<1>2. /\ m.kind = "probe" /\ m.path = p /\ m.session = peer.boot
      /\ m.challenge = peer.prober[p].learned
  BY DEF Probe
<1>3. sent' = sent \cup {m}
  BY DEF Emit
<1>4. UNCHANGED <<reflector, restart, reader, remote, announced, probed, local>>
  BY DEF Emit
<1>5. new \in ProberState /\ new.learned = peer.prober[p].learned
  <2> DEFINE b == (h = NoEpoch)
             n == pr.nextSeq + 1
  <2>1. pr \in ProberState /\ n \in Nat /\ b \in BOOLEAN
    BY <1>0, Types
  <2>2. new = [pr EXCEPT !.nextSeq = n, !.due = b]
    OBVIOUS
  <2> HIDE DEF b, n, pr, new
  <2>3. new \in ProberState /\ new.learned = pr.learned
    BY <2>1, <2>2, Zenon DEF ProberState
  <2> QED
    BY <2>3 DEF pr
<1>6. peer' = [peer EXCEPT !.prober[p] = new]
  BY DEF Emit
<1> HIDE DEF m, new
<1>7. /\ peer' \in PeerState /\ peer'.boot = peer.boot
      /\ \A q \in Paths : peer'.prober[q].learned = peer.prober[q].learned
  BY <1>0, <1>5, <1>6, ProberStep
<1>8. TypeOK'
  BY <1>0, <1>1, <1>3, <1>4, <1>7 DEF TypeOK
<1>9. KnownChallenges'
  BY <1>0, <1>2, <1>3, <1>4, <1>7 DEF KnownChallenges
<1>10. KnownSessions'
  BY <1>0, <1>2, <1>3, <1>4, <1>7, Types DEF KnownSessions
<1>11. HoldersAreLater'
  BY <1>0, <1>2, <1>3, <1>4, <1>7, Types DEF HoldersAreLater, KnownSessions
<1> QED
  BY <1>0, <1>4, <1>8, <1>9, <1>10, <1>11 DEF IInv, EchoesOnly

LEMMA EchoIInv ==
    ASSUME IInv, NEW m \in sent, HandleEchoProbe(m)
    PROVE  IInv'
<1> DEFINE pr == peer.prober[m.path]
           new == [pr EXCEPT !.high = m.seq, !.learned = m.challenge,
                     !.streak = IF pr.streak < UpAfter THEN pr.streak + 1 ELSE pr.streak]
<1>0. TypeOK /\ EchoesOnly /\ KnownChallenges /\ KnownSessions /\ HoldersAreLater
  BY DEF IInv
<1>1. m \in Frame /\ m.path \in Paths /\ m.seq \in Sequence /\ m.challenge \in Nat
  BY <1>0, Types DEF Frame
<1>2. new \in ProberState /\ new.learned = m.challenge
  <2>1. pr \in ProberState
    BY <1>0, <1>1, Types
  <2>2. (IF pr.streak < UpAfter THEN pr.streak + 1 ELSE pr.streak) \in 0 .. UpAfter
    BY <2>1 DEF ProberState
  <2> QED
    BY <2>1, <2>2, <1>1, Zenon DEF ProberState
<1>3. peer' = [peer EXCEPT !.prober[m.path] = new]
  BY DEF HandleEchoProbe
<1>4. UNCHANGED <<reflector, restart, reader, remote, announced, probed, local, sent>>
  BY DEF HandleEchoProbe
<1> HIDE DEF new
<1>5. /\ peer' \in PeerState /\ peer'.boot = peer.boot
      /\ \A q \in Paths : peer'.prober[q].learned =
             IF q = m.path THEN m.challenge ELSE peer.prober[q].learned
  BY <1>0, <1>1, <1>2, <1>3, ProberStep
<1>6. TypeOK'
  BY <1>0, <1>4, <1>5 DEF TypeOK
<1>7. KnownChallenges'
  BY <1>0, <1>4, <1>5 DEF KnownChallenges
<1>8. KnownSessions' /\ HoldersAreLater'
  BY <1>0, <1>4, <1>5 DEF KnownSessions, HoldersAreLater
<1> QED
  BY <1>0, <1>4, <1>6, <1>7, <1>8 DEF IInv, EchoesOnly

LEMMA PeerIInv ==
    ASSUME IInv, PeerReopen \/ PeerRestart
    PROVE  IInv'
<1>0. TypeOK /\ EchoesOnly /\ KnownChallenges /\ KnownSessions /\ HoldersAreLater
  BY DEF IInv
<1>1. UNCHANGED <<reflector, restart, reader, remote, announced, probed, local, sent>>
  BY DEF PeerReopen, PeerRestart
<1>2. /\ peer' \in PeerState
      /\ peer'.boot >= peer.boot
      /\ \A p \in Paths : peer'.prober[p].learned \in {peer.prober[p].learned, NoChallenge}
  <2>1. CASE PeerReopen
    BY <1>0, <2>1, Types DEF PeerReopen, TypeOK, PeerState
  <2>2. CASE PeerRestart
    <3>1. peer.boot + 1 \in Boots /\ peer.boot + 1 >= peer.boot
      BY <1>0, <2>2, Types DEF PeerRestart, Boots
    <3>2. /\ peer'.boot = peer.boot + 1 /\ peer' \in PeerState
          /\ \A p \in Paths : peer'.prober[p].learned = NoChallenge
      BY <2>2, <3>1, FreshTypes DEF PeerRestart, PeerState, FreshProber
    <3> QED
      BY <3>1, <3>2
  <2> QED
    BY <2>1, <2>2
<1>3. TypeOK'
  BY <1>0, <1>1, <1>2 DEF TypeOK
<1>4. KnownChallenges'
  BY <1>0, <1>1, <1>2, Types DEF KnownChallenges, NoChallenge
<1>5. peer'.boot \in Nat
  BY <1>2 DEF PeerState, Boots
<1>6. KnownSessions'
  BY <1>0, <1>1, <1>2, <1>5, Types DEF KnownSessions
<1>7. HoldersAreLater'
  BY <1>0, <1>1 DEF HoldersAreLater
<1> QED
  BY <1>0, <1>1, <1>3, <1>4, <1>6, <1>7 DEF IInv, EchoesOnly

LEMMA ReplyIInv ==
    ASSUME IInv, NEW p \in Paths, SendReply(p)
    PROVE  IInv'
<1> DEFINE m == Reply(p, probed[p].nextSeq, PeerEpoch)
<1>0. TypeOK /\ EchoesOnly /\ KnownChallenges /\ KnownSessions /\ HoldersAreLater
  BY DEF IInv
<1>1. probed[p].nextSeq \in Nat /\ probed' \in [Paths -> [nextSeq : Nat, high : Sequence]]
  BY <1>0 DEF SendReply, TypeOK
<1>2. m \in Frame
  BY <1>0, <1>1, Types DEF Reply, Frame, Nobody, NoChallenge, Sequence
<1>3. m.kind = "reply" /\ m.challenge = NoChallenge /\ m.path = p
  BY DEF Reply
<1>4. sent' = sent \cup {m}
  BY DEF SendReply
<1> HIDE DEF m
<1>5. UNCHANGED <<peer, reflector, restart, reader, remote, announced, local>>
  BY DEF SendReply
<1>6. TypeOK'
  BY <1>0, <1>1, <1>2, <1>4, <1>5 DEF TypeOK
<1>7. KnownChallenges'
  BY <1>0, <1>3, <1>4, <1>5, Types DEF KnownChallenges, NoChallenge
<1>8. KnownSessions' /\ HoldersAreLater'
  BY <1>0, <1>3, <1>4, <1>5 DEF KnownSessions, HoldersAreLater
<1> QED
  BY <1>0, <1>5, <1>6, <1>7, <1>8 DEF IInv, EchoesOnly

\* What AcceptProbe leaves in the path's state and in its reader: the same
\* challenge, session and adoption, or a proven session and a fresh challenge.
LEMMA AcceptStep ==
    ASSUME IInv, NEW m \in sent, AcceptProbe(m)
    PROVE  /\ m.path \in Paths /\ m.kind = "probe"
           /\ UNCHANGED <<peer, remote, announced, probed, local, sent>>
           /\ reflector' \in [Paths -> ReflectorPath]
           /\ reader' \in [Paths -> ReaderState]
           /\ restart' \in Boots \cup {Nobody}
           /\ \A q \in Paths : q # m.path => reflector'[q] = reflector[q] /\ reader'[q] = reader[q]
           /\ \/ /\ reflector'[m.path].challenge = reflector[m.path].challenge
                 /\ reflector'[m.path].session = reflector[m.path].session
                 /\ reflector'[m.path].adopted = reflector[m.path].adopted
              \/ /\ m.challenge = reflector[m.path].challenge
                 /\ reflector'[m.path].challenge = reflector[m.path].challenge + 1
                 /\ reflector'[m.path].session = m.session
           /\ reader'[m.path] = reader[m.path] \/
                 (/\ reader'[m.path].echo.kind = "echo"
                  /\ reader'[m.path].echo.path = m.path
                  /\ reader'[m.path].echo.challenge = reflector'[m.path].challenge)
<1> DEFINE p == m.path
           st == reflector[p]
<1>0. TypeOK /\ KnownSessions
  BY DEF IInv
<1>1. /\ m \in Frame /\ p \in Paths /\ m.kind = "probe" /\ m.session \in Boots
      /\ m.seq \in Sequence /\ m.hello \in Hello /\ m.challenge \in Nat
  BY <1>0, Types DEF AcceptProbe, KnownSessions, Frame
<1>2. UNCHANGED <<peer, remote, announced, probed, local, sent>>
  BY DEF AcceptProbe
<1>3. st \in ReflectorPath /\ st.challenge \in Nat /\ st.challenge > 0
  BY <1>0, <1>1, Types
<1>4. ASSUME NEW c \in Nat PROVE Echo(p, m.session, m.seq, c) \in Frame
  BY <1>1, <1>4 DEF Echo, Frame, Hello
<1>5. ASSUME NEW c \in Nat, NEW h \in Hello, NEW a \in BOOLEAN,
             reader' = [reader EXCEPT ![p] = Holding(h, a, Echo(p, m.session, m.seq, c))]
      PROVE  /\ reader' \in [Paths -> ReaderState]
             /\ \A q \in Paths : q # p => reader'[q] = reader[q]
             /\ reader'[p].echo.kind = "echo"
             /\ reader'[p].echo.path = p /\ reader'[p].echo.challenge = c
  <2> DEFINE e == Echo(p, m.session, m.seq, c)
             r == Holding(h, a, e)
  <2>1. e \in Frame /\ e.kind = "echo" /\ e.path = p /\ e.challenge = c
    BY <1>4 DEF Echo
  <2>2. reader' = [reader EXCEPT ![p] = r]
    BY <1>5
  <2> HIDE DEF e
  <2>3. r \in ReaderState /\ r.echo = e
    BY <2>1 DEF Holding, ReaderState
  <2> HIDE DEF r
  <2>4. reader \in [Paths -> ReaderState]
    BY <1>0 DEF TypeOK
  <2>5. reader'[p] = r /\ reader' \in [Paths -> ReaderState]
    BY <2>2, <2>3, <2>4, <1>1
  <2> QED
    BY <2>1, <2>2, <2>3, <2>4, <2>5
<1>6. reflector \in [Paths -> ReflectorPath]
      /\ restart \in Boots \cup {Nobody}
      /\ reader \in [Paths -> ReaderState]
  BY <1>0 DEF TypeOK
<1>7. NoEpoch \in Hello
  BY DEF Hello
<1>8. CASE AcceptReplay(m)
  BY <1>1, <1>2, <1>6, <1>8 DEF AcceptReplay
<1>9. CASE AcceptCurrent(m)
  <2> DEFINE new == [st EXCEPT !.high = m.seq]
  <2>1. /\ new \in ReflectorPath /\ new.challenge = st.challenge
        /\ new.session = st.session /\ new.adopted = st.adopted
    BY <1>1, <1>3 DEF ReflectorPath
  <2>2. reflector' = [reflector EXCEPT ![p] = new]
    BY <1>9 DEF AcceptCurrent
  <2> HIDE DEF new
  <2>3. reflector' \in [Paths -> ReflectorPath] /\ reflector'[p] = new
        /\ \A q \in Paths : q # p => reflector'[q] = reflector[q]
    BY <1>1, <1>6, <2>1, <2>2
  <2>4. restart' = restart
    BY <1>9 DEF AcceptCurrent
  <2>5. reader' = [reader EXCEPT ![p] = Holding(m.hello, FALSE, Echo(p, m.session, m.seq, st.challenge))]
    BY <1>9 DEF AcceptCurrent
  <2>6. /\ reader' \in [Paths -> ReaderState]
        /\ \A q \in Paths : q # p => reader'[q] = reader[q]
        /\ reader'[p].echo.kind = "echo"
        /\ reader'[p].echo.path = p /\ reader'[p].echo.challenge = st.challenge
    BY <1>1, <1>3, <1>5, <2>5, Zenon
  <2> QED
    BY <1>1, <1>2, <1>6, <2>1, <2>3, <2>4, <2>6
<1>10. CASE AcceptBootstrap(m)
  <2>1. reflector' = reflector /\ restart' = restart
    BY <1>10 DEF AcceptBootstrap
  <2>2. reader' = [reader EXCEPT ![p] = Holding(NoEpoch, FALSE, Echo(p, m.session, m.seq, st.challenge))]
    BY <1>10 DEF AcceptBootstrap
  <2>3. /\ reader' \in [Paths -> ReaderState]
        /\ \A q \in Paths : q # p => reader'[q] = reader[q]
        /\ reader'[p].echo.kind = "echo"
        /\ reader'[p].echo.path = p /\ reader'[p].echo.challenge = st.challenge
    BY <1>3, <1>5, <1>7, <2>2, Zenon
  <2> QED
    BY <1>1, <1>2, <1>6, <2>1, <2>3
<1>11. CASE AcceptAdopted(m)
  <2> DEFINE new == Adopted(m)
  <2>1. /\ new \in ReflectorPath /\ new.challenge = st.challenge + 1 /\ new.challenge \in Nat
        /\ new.session = m.session
    BY <1>1, <1>3 DEF Adopted, ReflectorPath, NoChallenge
  <2>2. reflector' = [reflector EXCEPT ![p] = new] /\ m.challenge = st.challenge
    BY <1>11 DEF AcceptAdopted, Proven
  <2>3. reader' = [reader EXCEPT ![p] = Holding(m.hello, TRUE, Echo(p, m.session, m.seq, new.challenge))]
    BY <1>11 DEF AcceptAdopted
  <2> HIDE DEF new
  <2>4. reflector' \in [Paths -> ReflectorPath] /\ reflector'[p] = new
        /\ \A q \in Paths : q # p => reflector'[q] = reflector[q]
    BY <1>1, <1>6, <2>1, <2>2
  <2>5. restart' \in Boots \cup {Nobody}
    BY <1>1, <1>6, <1>11 DEF AcceptAdopted, Surface
  <2>6. /\ reader' \in [Paths -> ReaderState]
        /\ \A q \in Paths : q # p => reader'[q] = reader[q]
        /\ reader'[p].echo.kind = "echo"
        /\ reader'[p].echo.path = p /\ reader'[p].echo.challenge = new.challenge
    BY <1>1, <1>5, <2>1, <2>3, Zenon
  <2> QED
    BY <1>1, <1>2, <2>1, <2>2, <2>4, <2>5, <2>6
<1> QED
  BY <1>8, <1>9, <1>10, <1>11 DEF AcceptProbe

LEMMA AcceptIInv ==
    ASSUME IInv, NEW m \in sent, AcceptProbe(m)
    PROVE  IInv'
<1>0. TypeOK /\ EchoesOnly /\ KnownChallenges /\ KnownSessions /\ HoldersAreLater
  BY DEF IInv
<1>1. /\ m.path \in Paths /\ m.kind = "probe"
      /\ UNCHANGED <<peer, remote, announced, probed, local, sent>>
      /\ \A q \in Paths : q # m.path => reflector'[q] = reflector[q] /\ reader'[q] = reader[q]
  BY AcceptStep
<1>2. \/ /\ reflector'[m.path].challenge = reflector[m.path].challenge
         /\ reflector'[m.path].session = reflector[m.path].session
         /\ reflector'[m.path].adopted = reflector[m.path].adopted
      \/ /\ m.challenge = reflector[m.path].challenge
         /\ reflector'[m.path].challenge = reflector[m.path].challenge + 1
         /\ reflector'[m.path].session = m.session
  BY AcceptStep
<1>3. reader'[m.path] = reader[m.path] \/
         (/\ reader'[m.path].echo.kind = "echo"
          /\ reader'[m.path].echo.path = m.path
          /\ reader'[m.path].echo.challenge = reflector'[m.path].challenge)
  BY AcceptStep
<1>4. TypeOK'
  BY <1>0, AcceptStep DEF TypeOK
<1>5. \A q \in Paths : reflector'[q].challenge \in Nat /\ reflector'[q].challenge >= reflector[q].challenge
  BY <1>0, <1>1, <1>2, Types
<1>6. KnownChallenges'
  <2>1. ASSUME NEW q \in Paths PROVE peer'.prober[q].learned <= reflector'[q].challenge
    BY <1>0, <1>1, <1>5, Types DEF KnownChallenges
  <2>2. ASSUME NEW q \in Paths
        PROVE  reader'[q].echo.challenge <= reflector'[reader'[q].echo.path].challenge
    <3>1. CASE reader'[q] = reader[q]
      <4>1. reader[q].echo.path \in Paths /\ reader[q].echo.challenge \in Nat
        BY <1>0, Types DEF Frame
      <4> QED
        BY <1>0, <1>5, <3>1, <4>1, Types DEF KnownChallenges
    <3>2. CASE reader'[q] # reader[q]
      BY <1>1, <1>3, <1>5, <3>2
    <3> QED
      BY <3>1, <3>2
  <2>3. ASSUME NEW n \in sent PROVE n.challenge <= reflector'[n.path].challenge
    BY <1>0, <1>5, Types DEF KnownChallenges
  <2> QED
    BY <1>1, <2>1, <2>2, <2>3 DEF KnownChallenges
<1>7. KnownSessions'
  BY <1>0, <1>1, <1>2, Types DEF KnownSessions
<1>8. HoldersAreLater'
  <2> SUFFICES ASSUME NEW n \in sent, n.kind = "probe",
                      n.challenge = reflector'[n.path].challenge, reflector'[n.path].adopted
               PROVE  n.session >= reflector'[n.path].session
    BY <1>1 DEF HoldersAreLater
  <2>1. n.path \in Paths /\ n.challenge <= reflector[n.path].challenge /\ n.challenge \in Nat
    BY <1>0, Types DEF KnownChallenges
  <2>2. CASE reflector'[n.path].challenge = reflector[n.path].challenge
    BY <1>0, <1>1, <1>2, <2>1, <2>2, Types DEF HoldersAreLater
  <2>3. CASE reflector'[n.path].challenge = reflector[n.path].challenge + 1
    BY <1>0, <2>1, <2>3, Types
  <2> QED
    BY <1>1, <1>2, <2>1, <2>2, <2>3
<1>9. EchoesOnly'
  BY <1>0, <1>1, <1>3 DEF EchoesOnly
<1> QED
  BY <1>4, <1>6, <1>7, <1>8, <1>9 DEF IInv

LEMMA AcceptReplyIInv ==
    ASSUME IInv, NEW m \in sent, AcceptReply(m)
    PROVE  IInv'
<1> DEFINE p == m.path
           r == Holding(m.hello, FALSE, NoEcho)
<1>0. TypeOK /\ EchoesOnly /\ KnownChallenges /\ KnownSessions /\ HoldersAreLater
  BY DEF IInv
<1>1. p \in Paths /\ m.hello \in Hello /\ m.seq \in Sequence
  BY <1>0, Types DEF Frame
<1>2. r \in ReaderState /\ r.echo = NoEcho
  BY <1>1, NoEchoFrame DEF Holding, ReaderState
<1>3. reader' = [reader EXCEPT ![p] = r]
  BY DEF AcceptReply
<1> HIDE DEF r
<1>4. reader' \in [Paths -> ReaderState] /\ \A q \in Paths : reader'[q] \in {reader[q], r}
  BY <1>0, <1>1, <1>2, <1>3 DEF TypeOK
<1>5. UNCHANGED <<peer, reflector, restart, remote, announced, local, sent>>
  BY DEF AcceptReply
<1>6. probed' \in [Paths -> [nextSeq : Nat, high : Sequence]]
  BY <1>0, <1>1 DEF AcceptReply, TypeOK
<1>7. TypeOK'
  BY <1>0, <1>4, <1>5, <1>6 DEF TypeOK
<1>8. NoEcho.path \in Paths /\ NoEcho.challenge = 0
  BY NoEchoFrame DEF Frame, NoChallenge
<1>9. KnownChallenges'
  BY <1>0, <1>2, <1>4, <1>5, <1>8, Types DEF KnownChallenges
<1>10. KnownSessions' /\ HoldersAreLater'
  BY <1>0, <1>5 DEF KnownSessions, HoldersAreLater
<1>11. EchoesOnly'
  BY <1>0, <1>2, <1>4, NoEchoFrame DEF EchoesOnly
<1> QED
  BY <1>7, <1>9, <1>10, <1>11 DEF IInv

LEMMA LearnIInv ==
    ASSUME IInv, NEW p \in Paths, Learn(p)
    PROVE  IInv'
<1>0. TypeOK /\ EchoesOnly /\ KnownChallenges /\ KnownSessions /\ HoldersAreLater
  BY DEF IInv
<1>1. UNCHANGED <<peer, reflector, restart, probed, local>>
  BY DEF Learn
<1>2. /\ reader' \in [Paths -> ReaderState]
      /\ \A q \in Paths : reader'[q] \in {reader[q], Idle}
  BY <1>0, FreshTypes DEF Learn, TypeOK
<1>3. reader[p].echo \in Frame /\ reader[p].hello \in Hello
  BY <1>0, Types DEF ReaderState
<1>4. remote' \in Hello
  BY <1>0, <1>3 DEF Learn, TypeOK
<1>5. announced' \in [Boots -> Nat]
  <2>1. CASE announced' = announced
    BY <1>0, <2>1 DEF TypeOK
  <2>2. CASE announced' # announced
    <3> DEFINE b == reader[p].hello.boot
    <3>1. reader[p].hello # NoEpoch /\ announced' = [announced EXCEPT ![b] = @ + 1]
      BY <2>2 DEF Learn, Restarted, Accepts
    <3>2. b \in Boots
      BY <1>3, <3>1 DEF Hello, Epochs
    <3> QED
      BY <1>0, <3>1, <3>2 DEF TypeOK
  <2> QED
    BY <2>1, <2>2
<1>6. sent' = sent \/ (reader[p].echo # NoEcho /\ sent' = sent \cup {reader[p].echo})
  BY DEF Learn
<1>7. TypeOK'
  BY <1>0, <1>1, <1>2, <1>3, <1>4, <1>5, <1>6 DEF TypeOK
<1>8. Idle.echo.path \in Paths /\ Idle.echo.challenge = 0
  BY NoEchoFrame DEF Idle, Frame, NoChallenge
<1>9. KnownChallenges'
  BY <1>0, <1>1, <1>2, <1>6, <1>8, Types DEF KnownChallenges
<1>10. reader[p].echo.kind # "probe"
  BY <1>0 DEF EchoesOnly
<1>11. KnownSessions' /\ HoldersAreLater'
  BY <1>0, <1>1, <1>6, <1>10 DEF KnownSessions, HoldersAreLater
<1>12. EchoesOnly'
  BY <1>0, <1>2, NoEchoFrame DEF EchoesOnly, Idle
<1> QED
  BY <1>7, <1>9, <1>11, <1>12 DEF IInv

LEMMA LocalIInv ==
    ASSUME IInv, Reopen \/ Restart
    PROVE  IInv'
<1>0. TypeOK /\ EchoesOnly /\ KnownChallenges /\ KnownSessions /\ HoldersAreLater
  BY DEF IInv
<1>1. NoEpoch \in Hello /\ local' \in Nat
  BY <1>0 DEF Hello, Reopen, Restart, TypeOK
<1>2. CASE Reopen
  <2>1. UNCHANGED <<peer, reflector, restart, reader, announced, probed, sent>> /\ remote' = NoEpoch
    BY <1>2 DEF Reopen
  <2> QED
    BY <1>0, <1>1, <2>1
    DEF IInv, TypeOK, EchoesOnly, KnownChallenges, KnownSessions, HoldersAreLater
<1>3. CASE Restart
  <2>1. UNCHANGED <<peer, sent>> /\ remote' = NoEpoch
    BY <1>3 DEF Restart
  <2>2. /\ reflector' \in [Paths -> ReflectorPath]
        /\ \A p \in Paths : /\ reflector'[p].challenge = reflector[p].challenge + 1
                            /\ ~ reflector'[p].adopted
    BY <1>0, <1>3, Types DEF Restart, FreshPath, ReflectorPath, NoChallenge, Sequence
  <2>3. reader' = [p \in Paths |-> Idle]
    BY <1>3 DEF Restart
  <2>4. probed' \in [Paths -> [nextSeq : Nat, high : Sequence]]
    <3>1. ASSUME NEW p \in Paths
          PROVE  [probed[p] EXCEPT !.high = probed[p].nextSeq - 1] \in [nextSeq : Nat, high : Sequence]
      <4>1. probed[p] \in [nextSeq : Nat, high : Sequence] /\ probed[p].nextSeq - 1 \in Sequence
        BY <1>0 DEF TypeOK, Sequence, NoSeq
      <4> QED
        BY <4>1
    <3> QED
      BY <1>3, <3>1 DEF Restart
  <2>5. restart' \in Boots \cup {Nobody} /\ announced' \in [Boots -> Nat]
    BY <1>3 DEF Restart
  <2>6. reader' \in [Paths -> ReaderState]
    BY <2>3, FreshTypes
  <2>7. TypeOK'
    BY <1>0, <1>1, <2>1, <2>2, <2>4, <2>5, <2>6 DEF TypeOK
  <2>8. Idle.echo.path \in Paths /\ Idle.echo.challenge = 0 /\ Idle.echo.kind = "echo"
    BY NoEchoFrame DEF Idle, Frame, NoChallenge
  <2>9. EchoesOnly'
    BY <2>3, <2>8 DEF EchoesOnly
  <2>10. KnownChallenges'
    BY <1>0, <2>1, <2>2, <2>3, <2>8, Types DEF KnownChallenges
  <2>11. KnownSessions' /\ HoldersAreLater'
    BY <1>0, <2>1, <2>2, Types DEF KnownSessions, HoldersAreLater
  <2> QED
    BY <2>7, <2>9, <2>10, <2>11 DEF IInv
<1> QED
  BY <1>2, <1>3

LEMMA NextIInv == IInv /\ [Next]_vars => IInv'
<1> SUFFICES ASSUME IInv, [Next]_vars PROVE IInv'
  OBVIOUS
<1>1. ASSUME NEW p \in Paths, SendProbe(p) \/ SendPaddedProbe(p) PROVE IInv'
  <2>1. PeerEpoch \in Hello /\ NoEpoch \in Hello
    BY Types DEF IInv, Hello
  <2> QED
    BY <1>1, <2>1, EmitIInv DEF SendProbe, SendPaddedProbe
<1>2. CASE UNCHANGED vars
  BY <1>2 DEF vars, IInv, TypeOK, EchoesOnly, KnownChallenges, KnownSessions, HoldersAreLater
<1> QED
  BY <1>1, <1>2, EchoIInv, PeerIInv, ReplyIInv, AcceptIInv, AcceptReplyIInv, LearnIInv, LocalIInv
  DEF Next

LEMMA SpecIInv == Spec => []IInv
  BY InitIInv, NextIInv, PTL DEF Spec

\* The probe plane keeps its types, and a live challenge is never 0.
THEOREM TypeCorrect == Spec => []TypeOK
<1>1. IInv => TypeOK
  BY DEF IInv
<1> QED
  BY <1>1, SpecIInv, PTL

\* acceptLocked's rotation of the challenge works: no delayed, duplicated or
\* reordered probe ever takes a path of a live reflector back to a process the
\* peer has left.
THEOREM NoReadoption == Spec => AdoptionMonotone
<1>1. IInv /\ [Next]_vars => [\A p \in Paths : NeverReadoptsOlder(p)]_vars
  <2> SUFFICES ASSUME IInv, Next, NEW p \in Paths, reflector[p].adopted, reflector'[p].adopted
               PROVE  reflector'[p].session >= reflector[p].session
    BY DEF NeverReadoptsOlder, vars
  <2>0. TypeOK /\ HoldersAreLater /\ reflector[p].session \in Nat
    BY Types DEF IInv
  <2>1. CASE reflector' = reflector
    BY <2>0, <2>1
  <2>2. CASE Restart
    BY <2>2 DEF Restart, FreshPath
  <2>3. ASSUME NEW m \in sent, AcceptProbe(m) PROVE reflector'[p].session >= reflector[p].session
    BY <2>0, <2>3, AcceptStep DEF HoldersAreLater
  <2> QED
    BY <2>1, <2>2, <2>3, Zenon
    DEF Next, SendProbe, SendPaddedProbe, Emit, SendReply, Learn, HandleEchoProbe, AcceptReply,
        PeerReopen, PeerRestart, Reopen
<1> QED
  BY <1>1, SpecIInv, PTL DEF Spec, AdoptionMonotone

-----------------------------------------------------------------------------
(* What the readers of the paths hand to learn.                            *)

\* A probe's hello, when it has one, names the process its session ID names.
Named ==
    \A m \in sent : m.kind = "probe" /\ m.hello # NoEpoch => m.hello.boot = m.session

\* A path is adopted only after it was probed.
AdoptedUsed == \A p \in Paths : reflector[p].adopted => p \in Used

\* A reader that holds an adoption holds the hello of the probe adopted, and its
\* path's state has not moved on since.
Carried ==
    \A p \in Paths : reader[p].adopted =>
        /\ reader[p].busy
        /\ reflector[p].adopted
        /\ \E m \in sent : /\ m.kind = "probe" /\ m.path = p
                           /\ m.session = reflector[p].session
                           /\ m.hello = reader[p].hello

\* The process a path's reader is about to announce, if any.
Announces(p, b) == reader[p].adopted /\ reader[p].hello # NoEpoch /\ reader[p].hello.boot = b

\* With one path in use, what was announced is behind that path's adoption, and
\* is not about to be announced again.
AnnouncedBehind ==
    \A b \in Boots :
        /\ announced[b] > 0 => Used # {}
        /\ (\A p, q \in Used : p = q) =>
              /\ announced[b] <= 1
              /\ announced[b] > 0 => \A p \in Used : /\ reflector[p].adopted
                                                     /\ b <= reflector[p].session
                                                     /\ ~ Announces(p, b)

\* A path that has adopted the peer's process, and whose reader does not hold
\* an adoption that learn has yet to see.
Settled(p) ==
    reflector[p].adopted /\ reflector[p].session = peer.boot /\ ~ reader[p].adopted

\* Once every path in use is settled, the transport speaks to the peer's process.
Followed ==
    /\ local = 0 /\ ~ HasPadded
    /\ Used # {}
    /\ \A p \in Used : Settled(p)
    => remote.boot = peer.boot

Handed == Named /\ AdoptedUsed /\ Carried /\ AnnouncedBehind /\ Followed

Probes == {m \in sent : m.kind = "probe"}

\* Only the probes matter to what the readers hand over.
LEMMA SameProbes ==
    ASSUME Probes' = Probes
    PROVE  /\ Used' = Used
           /\ Named => Named'
           /\ peer'.boot = peer.boot => (HasPadded' <=> HasPadded)
  BY DEF Probes, Used, Named, HasPadded

\* A step that sends no probe, adopts nothing and calls no learn: the readers
\* it fills were free and hold no adoption.
LEMMA KeepsHanded ==
    ASSUME TypeOK, Handed, Probes' = Probes, peer'.boot = peer.boot,
           UNCHANGED <<remote, announced, local>>,
           \A p \in Paths : /\ reflector'[p].adopted = reflector[p].adopted
                            /\ reflector'[p].session = reflector[p].session
                            /\ \/ reader'[p] = reader[p]
                               \/ ~ reader'[p].adopted /\ ~ reader[p].busy
    PROVE  Handed'
<1>0. Named /\ AdoptedUsed /\ Carried /\ AnnouncedBehind /\ Followed
  BY DEF Handed
<1>1. Used' = Used /\ Named' /\ (HasPadded' <=> HasPadded) /\ Used \subseteq Paths
  BY <1>0, SameProbes DEF Used
<1>2. \A p \in Paths : reader'[p].adopted => reader'[p] = reader[p]
  OBVIOUS
<1>3. \A p \in Paths : reader[p].adopted => reader'[p] = reader[p]
  BY <1>0 DEF Carried
<1>4. AdoptedUsed'
  BY <1>0, <1>1 DEF AdoptedUsed
<1>5. Carried'
  <2> SUFFICES ASSUME NEW p \in Paths, reader'[p].adopted
               PROVE  /\ reader'[p].busy /\ reflector'[p].adopted
                      /\ \E m \in sent' : /\ m.kind = "probe" /\ m.path = p
                                          /\ m.session = reflector'[p].session
                                          /\ m.hello = reader'[p].hello
    BY DEF Carried
  <2>1. reader'[p] = reader[p]
    BY <1>2
  <2>2. PICK m \in sent : /\ m.kind = "probe" /\ m.path = p
                          /\ m.session = reflector[p].session /\ m.hello = reader[p].hello
    BY <1>0, <2>1 DEF Carried
  <2>3. m \in sent'
    BY <2>2 DEF Probes
  <2> QED
    BY <1>0, <2>1, <2>2, <2>3 DEF Carried
<1>6. \A p \in Paths, b \in Boots : Announces(p, b)' => Announces(p, b)
  BY <1>2 DEF Announces
<1>7. AnnouncedBehind'
  BY <1>0, <1>1, <1>6 DEF AnnouncedBehind
<1>8. \A p \in Paths : Settled(p)' => Settled(p)
  BY <1>3 DEF Settled
<1>9. Followed'
  BY <1>0, <1>1, <1>8 DEF Followed
<1> QED
  BY <1>1, <1>4, <1>5, <1>7, <1>9 DEF Handed

\* The peer's steps that send no probe, and the replies this end accepts.
LEMMA OthersHanded ==
    ASSUME TypeOK, Handed,
           \/ \E m \in sent : HandleEchoProbe(m) \/ AcceptReply(m)
           \/ \E p \in Paths : SendReply(p)
           \/ PeerReopen
    PROVE  Handed'
<1>1. ASSUME NEW m \in sent, HandleEchoProbe(m) PROVE Handed'
  <2>1. m.path \in Paths /\ m.seq \in Sequence /\ m.challenge \in Nat
    BY Types DEF Frame
  <2>2. peer'.boot = peer.boot
    BY <1>1, Zenon DEF HandleEchoProbe, TypeOK, PeerState
  <2> QED
    BY <1>1, <2>2, KeepsHanded, Zenon DEF HandleEchoProbe, Probes
<1>2. ASSUME NEW m \in sent, AcceptReply(m) PROVE Handed'
  <2> DEFINE r == Holding(m.hello, FALSE, NoEcho)
  <2>1. ~ r.adopted /\ m.path \in Paths /\ reader \in [Paths -> ReaderState]
    BY Types DEF Holding, TypeOK
  <2>2. reader' = [reader EXCEPT ![m.path] = r] /\ ~ reader[m.path].busy
    BY <1>2 DEF AcceptReply
  <2> HIDE DEF r
  <2>3. \A p \in Paths : reader'[p] = reader[p] \/ (~ reader'[p].adopted /\ ~ reader[p].busy)
    BY <2>1, <2>2
  <2> QED
    BY <1>2, <2>3, KeepsHanded, Zenon DEF AcceptReply, Probes
<1>3. ASSUME NEW p \in Paths, SendReply(p) PROVE Handed'
  <2>1. Reply(p, probed[p].nextSeq, PeerEpoch).kind = "reply"
    BY DEF Reply
  <2>2. Probes' = Probes
    BY <1>3, <2>1 DEF SendReply, Probes
  <2> QED
    BY <1>3, <2>2, KeepsHanded DEF SendReply
<1>4. CASE PeerReopen
  <2>1. peer'.boot = peer.boot
    BY <1>4 DEF PeerReopen, TypeOK, PeerState
  <2> QED
    BY <1>4, <2>1, KeepsHanded DEF PeerReopen, Probes
<1> QED
  BY <1>1, <1>2, <1>3, <1>4, Zenon

\* A new process of the peer: no path has adopted it yet.
LEMMA PeerRestartHanded ==
    ASSUME IInv, Handed, PeerRestart
    PROVE  Handed'
<1>0. /\ Named /\ AdoptedUsed /\ Carried /\ AnnouncedBehind
      /\ TypeOK /\ KnownSessions
  BY DEF Handed, IInv
<1>1. UNCHANGED <<reflector, reader, remote, announced, local, sent>> /\ peer'.boot = peer.boot + 1
  BY DEF PeerRestart
<1>2. Used' = Used /\ Used \subseteq Paths
  BY <1>1 DEF Used
<1>3. \A p \in Used : ~ Settled(p)'
  BY <1>0, <1>1, <1>2, Types DEF Settled, KnownSessions
<1>4. Named' /\ AdoptedUsed' /\ Carried'
  BY <1>0, <1>1, <1>2 DEF Named, AdoptedUsed, Carried
<1>5. AnnouncedBehind'
  BY <1>0, <1>1, <1>2 DEF AnnouncedBehind, Announces
<1>6. Followed'
  BY <1>2, <1>3 DEF Followed
<1> QED
  BY <1>4, <1>5, <1>6 DEF Handed

\* A probe of the peer: a path it uses for the first time is not adopted, so
\* nothing was announced over it and it is not settled.
LEMMA EmitHanded ==
    ASSUME IInv, Handed, NEW p \in Paths, NEW h \in {NoEpoch, PeerEpoch}, Emit(p, h)
    PROVE  Handed'
<1> DEFINE m == Probe(p, peer.boot, peer.prober[p].nextSeq, peer.prober[p].learned, h)
<1>0. /\ Named /\ AdoptedUsed /\ Carried /\ AnnouncedBehind /\ Followed
      /\ TypeOK
  BY DEF Handed, IInv
<1>1. UNCHANGED <<reflector, reader, remote, announced, local>> /\ sent' = sent \cup {m}
  BY DEF Emit
<1>2. peer'.boot = peer.boot
  BY <1>0 DEF Emit, TypeOK, PeerState
<1>3. /\ m.kind = "probe" /\ m.path = p /\ m.session = peer.boot /\ m.hello = h
      /\ PeerEpoch.boot = peer.boot
  BY DEF Probe, PeerEpoch
<1> HIDE DEF m
<1>4. Used' = Used \cup {p} /\ Used \subseteq Paths
  BY <1>1, <1>3 DEF Used
<1>5. Named'
  BY <1>0, <1>1, <1>3 DEF Named
<1>6. AdoptedUsed' /\ Carried'
  BY <1>0, <1>1, <1>4 DEF AdoptedUsed, Carried
<1>7. \A q \in Paths, b \in Boots : Announces(q, b)' <=> Announces(q, b)
  BY <1>1 DEF Announces
<1>8. AnnouncedBehind'
  <2> SUFFICES ASSUME NEW b \in Boots
               PROVE  /\ announced[b] > 0 => Used' # {}
                      /\ (\A q, r \in Used' : q = r) =>
                            /\ announced[b] <= 1
                            /\ announced[b] > 0 => \A q \in Used' : /\ reflector[q].adopted
                                                                    /\ b <= reflector[q].session
                                                                    /\ ~ Announces(q, b)'
    BY <1>1 DEF AnnouncedBehind
  <2>1. ASSUME \A q, r \in Used' : q = r, announced[b] > 0 PROVE Used' = Used
    BY <1>0, <1>4, <2>1 DEF AnnouncedBehind
  <2> QED
    BY <1>0, <1>4, <1>7, <2>1 DEF AnnouncedBehind
<1>9. \A q \in Paths : Settled(q)' <=> Settled(q)
  BY <1>1, <1>2 DEF Settled
<1>10. Followed'
  <2> SUFFICES ASSUME local = 0, ~ HasPadded', \A q \in Used' : Settled(q)'
               PROVE  remote.boot = peer.boot
    BY <1>1, <1>2 DEF Followed
  <2>1. p \in Used /\ Used' = Used
    BY <1>0, <1>4, <1>9 DEF Settled, AdoptedUsed
  <2>2. ~ HasPadded
    BY <1>1, <1>2 DEF HasPadded
  <2> QED
    BY <1>0, <1>4, <1>9, <2>1, <2>2 DEF Followed
<1> QED
  BY <1>5, <1>6, <1>8, <1>10 DEF Handed

\* What AcceptProbe does to a path's adoption and to its reader.
LEMMA AcceptHolds ==
    ASSUME TypeOK, NEW m \in sent, AcceptProbe(m)
    PROVE  /\ m.path \in Paths /\ m.kind = "probe" /\ ~ reader[m.path].busy
           /\ UNCHANGED <<peer, remote, announced, probed, local, sent>>
           /\ \A q \in Paths : q # m.path => reflector'[q] = reflector[q] /\ reader'[q] = reader[q]
           /\ \/ /\ reflector'[m.path].session = reflector[m.path].session
                 /\ reflector'[m.path].adopted = reflector[m.path].adopted
                 /\ reader'[m.path] = reader[m.path] \/ ~ reader'[m.path].adopted
              \/ /\ m.challenge = reflector[m.path].challenge
                 /\ reflector[m.path].adopted => m.session # reflector[m.path].session
                 /\ reflector'[m.path].session = m.session /\ reflector'[m.path].adopted
                 /\ reader'[m.path].busy /\ reader'[m.path].adopted
                 /\ reader'[m.path].hello = m.hello
<1> DEFINE p == m.path
<1>0. /\ p \in Paths /\ reflector \in [Paths -> ReflectorPath]
      /\ DOMAIN reader = Paths
  BY Types DEF TypeOK
<1>1. /\ m.kind = "probe" /\ ~ reader[p].busy
      /\ UNCHANGED <<peer, remote, announced, probed, local, sent>>
  BY DEF AcceptProbe
<1>2. \A h, a, e : /\ Holding(h, a, e).busy /\ Holding(h, a, e).adopted = a
                   /\ Holding(h, a, e).hello = h
  BY DEF Holding
<1>3. CASE AcceptReplay(m)
  BY <1>0, <1>1, <1>3 DEF AcceptReplay
<1>4. CASE AcceptCurrent(m)
  <2> DEFINE r == Holding(m.hello, FALSE, Echo(p, m.session, m.seq, reflector[p].challenge))
  <2>1. /\ reader' = [reader EXCEPT ![p] = r] /\ ~ r.adopted
        /\ reflector' = [reflector EXCEPT ![p].high = m.seq]
    BY <1>2, <1>4, Zenon DEF AcceptCurrent
  <2> HIDE DEF r
  <2>2. /\ reflector'[p].session = reflector[p].session
        /\ reflector'[p].adopted = reflector[p].adopted
        /\ \A q \in Paths : q # p => reflector'[q] = reflector[q]
    BY <1>0, <2>1 DEF ReflectorPath
  <2> QED
    BY <1>0, <1>1, <2>1, <2>2
<1>5. CASE AcceptBootstrap(m)
  <2> DEFINE r == Holding(NoEpoch, FALSE, Echo(p, m.session, m.seq, reflector[p].challenge))
  <2>1. reader' = [reader EXCEPT ![p] = r] /\ ~ r.adopted /\ reflector' = reflector
    BY <1>2, <1>5, Zenon DEF AcceptBootstrap
  <2> HIDE DEF r
  <2> QED
    BY <1>0, <1>1, <2>1
<1>6. CASE AcceptAdopted(m)
  <2> DEFINE new == Adopted(m)
             r == Holding(m.hello, TRUE, Echo(p, m.session, m.seq, new.challenge))
  <2>1. /\ reader' = [reader EXCEPT ![p] = r] /\ reflector' = [reflector EXCEPT ![p] = new]
        /\ m.challenge = reflector[p].challenge
        /\ reflector[p].adopted => m.session # reflector[p].session
    BY <1>6 DEF AcceptAdopted, Proven, Current
  <2>2. new.session = m.session /\ new.adopted
    BY DEF Adopted
  <2> HIDE DEF new
  <2>3. r.adopted /\ r.busy /\ r.hello = m.hello
    BY DEF Holding
  <2> HIDE DEF r
  <2>4. /\ reader'[p] = r /\ reflector'[p] = new
        /\ \A q \in Paths : q # p => reflector'[q] = reflector[q] /\ reader'[q] = reader[q]
    BY <1>0, <2>1
  <2> QED
    BY <1>0, <1>1, <2>1, <2>2, <2>3, <2>4
<1> QED
  BY <1>3, <1>4, <1>5, <1>6 DEF AcceptProbe

\* An adoption is of a later process than the one the path had, so of one not
\* announced over it yet; the path is unsettled until learn sees it.
LEMMA AcceptHanded ==
    ASSUME IInv, Handed, NEW m \in sent, AcceptProbe(m)
    PROVE  Handed'
<1> DEFINE p == m.path
<1>0. /\ Named /\ AdoptedUsed /\ Carried /\ AnnouncedBehind
      /\ TypeOK /\ HoldersAreLater
  BY DEF Handed, IInv
<1>1. /\ p \in Paths /\ m.kind = "probe" /\ ~ reader[p].busy
      /\ UNCHANGED <<peer, remote, announced, local, sent>>
      /\ \A q \in Paths : q # p => reflector'[q] = reflector[q] /\ reader'[q] = reader[q]
  BY <1>0, AcceptHolds
<1>2. Probes' = Probes /\ Used' = Used /\ p \in Used /\ Used \subseteq Paths
  BY <1>1 DEF Probes, Used
<1>3. CASE /\ reflector'[p].session = reflector[p].session
           /\ reflector'[p].adopted = reflector[p].adopted
           /\ reader'[p] = reader[p] \/ ~ reader'[p].adopted
  <2>1. \A q \in Paths : /\ reflector'[q].adopted = reflector[q].adopted
                         /\ reflector'[q].session = reflector[q].session
                         /\ \/ reader'[q] = reader[q]
                            \/ ~ reader'[q].adopted /\ ~ reader[q].busy
    BY <1>1, <1>3
  <2> QED
    BY <1>0, <1>1, <1>2, <2>1, KeepsHanded
<1>4. CASE /\ m.challenge = reflector[p].challenge
           /\ reflector[p].adopted => m.session # reflector[p].session
           /\ reflector'[p].session = m.session /\ reflector'[p].adopted
           /\ reader'[p].busy /\ reader'[p].adopted
           /\ reader'[p].hello = m.hello
  <2>1. Named'
    BY <1>0, <1>1 DEF Named
  <2>2. AdoptedUsed'
    BY <1>0, <1>1, <1>2 DEF AdoptedUsed
  <2>3. Carried'
    <3> SUFFICES ASSUME NEW q \in Paths, reader'[q].adopted
                 PROVE  /\ reader'[q].busy /\ reflector'[q].adopted
                        /\ \E n \in sent : /\ n.kind = "probe" /\ n.path = q
                                           /\ n.session = reflector'[q].session
                                           /\ n.hello = reader'[q].hello
      BY <1>1 DEF Carried
    <3>1. CASE q = p
      BY <1>1, <1>4, <3>1
    <3>2. CASE q # p
      BY <1>0, <1>1, <3>2 DEF Carried
    <3> QED
      BY <3>1, <3>2
  <2>4. AnnouncedBehind'
    <3>1. ASSUME NEW b \in Boots, announced[b] > 0, \A q, r \in Used : q = r
          PROVE  \A q \in Used : /\ reflector'[q].adopted
                                 /\ b <= reflector'[q].session
                                 /\ ~ Announces(q, b)'
      <4>1. \A q \in Used : q = p
        BY <1>2, <3>1
      <4>2. reflector[p].adopted /\ b <= reflector[p].session
        BY <1>0, <1>2, <3>1 DEF AnnouncedBehind
      <4>3. m.session \in Nat /\ reflector[p].session \in Nat /\ b \in Nat
        BY <1>0, <1>1, Types DEF Boots
      <4>4. m.session >= reflector[p].session /\ m.session # reflector[p].session
        BY <1>0, <1>1, <1>4, <4>2 DEF HoldersAreLater
      <4>5. b < m.session
        BY <4>2, <4>3, <4>4
      <4>6. ~ Announces(p, b)'
        BY <1>0, <1>1, <1>4, <4>3, <4>5 DEF Named, Announces
      <4> QED
        BY <1>4, <4>1, <4>3, <4>5, <4>6
    <3> QED
      BY <1>0, <1>1, <1>2, <3>1 DEF AnnouncedBehind
  <2>5. Followed'
    BY <1>2, <1>4 DEF Followed, Settled
  <2> QED
    BY <2>1, <2>2, <2>3, <2>4, <2>5 DEF Handed
<1> QED
  BY <1>0, <1>3, <1>4, AcceptHolds

\* learn sees the adoption its reader holds, and an adoption of another process
\* is always followed.
LEMMA LearnHanded ==
    ASSUME IInv, Handed, NEW p \in Paths, Learn(p)
    PROVE  Handed'
<1> DEFINE h == reader[p]
<1>0. /\ Named /\ AdoptedUsed /\ Carried /\ AnnouncedBehind /\ Followed
      /\ TypeOK /\ EchoesOnly
  BY DEF Handed, IInv
<1>1. UNCHANGED <<peer, reflector, local>>
  BY DEF Learn
<1>2. Probes' = Probes
  <2>1. sent' = sent \/ sent' = sent \cup {h.echo}
    BY DEF Learn
  <2> QED
    BY <1>0, <2>1 DEF EchoesOnly, Probes
<1>3. Used' = Used /\ Named' /\ (HasPadded' <=> HasPadded) /\ Used \subseteq Paths
  BY <1>0, <1>1, <1>2, SameProbes DEF Used
<1>4. ~ reader'[p].adopted /\ \A q \in Paths : q # p => reader'[q] = reader[q]
  BY <1>0 DEF Learn, TypeOK, Idle
<1>5. AdoptedUsed'
  BY <1>0, <1>1, <1>3 DEF AdoptedUsed
<1>6. Carried'
  <2> SUFFICES ASSUME NEW q \in Paths, reader'[q].adopted
               PROVE  /\ reader'[q].busy /\ reflector'[q].adopted
                      /\ \E m \in sent' : /\ m.kind = "probe" /\ m.path = q
                                          /\ m.session = reflector'[q].session
                                          /\ m.hello = reader'[q].hello
    BY DEF Carried
  <2>1. reader'[q] = reader[q]
    BY <1>4
  <2>2. PICK m \in sent : /\ m.kind = "probe" /\ m.path = q
                          /\ m.session = reflector[q].session /\ m.hello = reader[q].hello
    BY <1>0, <2>1 DEF Carried
  <2>3. m \in sent'
    BY <1>2, <2>2 DEF Probes
  <2> QED
    BY <1>0, <1>1, <2>1, <2>2, <2>3 DEF Carried
<1>7. \A q \in Paths, b \in Boots : Announces(q, b)' => Announces(q, b) /\ q # p
  BY <1>4 DEF Announces
<1>8. ASSUME h.adopted
      PROVE  /\ p \in Used /\ reflector[p].adopted
             /\ h.hello # NoEpoch => h.hello.boot = reflector[p].session
             /\ h.hello = NoEpoch /\ reflector[p].session = peer.boot => HasPadded
  BY <1>0, <1>8 DEF Carried, AdoptedUsed, Named, HasPadded
<1>9. h.hello \in Hello /\ h.adopted \in BOOLEAN /\ remote \in Hello /\ announced \in [Boots -> Nat]
  BY <1>0, Types DEF TypeOK, ReaderState
<1>10. AnnouncedBehind'
  <2>1. CASE ~ Restarted(remote, h.hello, h.adopted)
    <3>1. announced' = announced
      BY <2>1 DEF Learn
    <3> QED
      BY <1>0, <1>1, <1>3, <1>7, <3>1 DEF AnnouncedBehind
  <2>2. CASE Restarted(remote, h.hello, h.adopted)
    <3> DEFINE c == h.hello.boot
    <3>1. h.adopted /\ h.hello # NoEpoch
      BY <2>2 DEF Restarted, Accepts
    <3>2. p \in Used /\ reflector[p].adopted /\ c = reflector[p].session
      BY <1>8, <3>1
    <3>3. c \in Boots /\ Announces(p, c)
      BY <1>9, <3>1 DEF Hello, Epochs, Announces
    <3>4. announced' = [announced EXCEPT ![c] = @ + 1]
      BY <2>2 DEF Learn
    <3> HIDE DEF c
    <3>5. announced'[c] = announced[c] + 1 /\ announced[c] \in Nat
      BY <1>9, <3>3, <3>4
    <3>6. \A b \in Boots : b # c => announced'[b] = announced[b]
      BY <1>9, <3>4
    <3>7. ASSUME \A q, r \in Used : q = r
          PROVE  /\ announced'[c] <= 1
                 /\ \A q \in Used : reflector[q].adopted /\ c <= reflector[q].session /\ q = p
      <4>1. announced[c] = 0
        BY <1>0, <3>2, <3>3, <3>5, <3>7 DEF AnnouncedBehind
      <4>2. c \in Nat
        BY <3>3 DEF Boots
      <4> QED
        BY <3>2, <3>5, <3>7, <4>1, <4>2
    <3> SUFFICES ASSUME NEW b \in Boots
                 PROVE  /\ announced'[b] > 0 => Used # {}
                        /\ (\A q, r \in Used : q = r) =>
                              /\ announced'[b] <= 1
                              /\ announced'[b] > 0 => \A q \in Used : /\ reflector[q].adopted
                                                                      /\ b <= reflector[q].session
                                                                      /\ ~ Announces(q, b)'
      BY <1>1, <1>3 DEF AnnouncedBehind
    <3>8. CASE b = c
      BY <1>3, <1>7, <3>2, <3>7, <3>8
    <3>9. CASE b # c
      BY <1>0, <1>3, <1>7, <3>6, <3>9 DEF AnnouncedBehind
    <3> QED
      BY <3>8, <3>9
  <2> QED
    BY <2>1, <2>2
<1>11. Followed'
  <2> SUFFICES ASSUME local = 0, ~ HasPadded, Used # {}, \A q \in Used : Settled(q)'
               PROVE  remote'.boot = peer.boot
    BY <1>1, <1>3 DEF Followed
  <2>1. remote' = IF Accepts(remote, h.hello, h.adopted) THEN h.hello ELSE remote
    BY DEF Learn
  <2>2. CASE h.adopted
    <3>1. reflector[p].session = peer.boot
      BY <1>1, <1>8, <2>2 DEF Settled
    <3>2. h.hello # NoEpoch /\ h.hello.boot = peer.boot
      BY <1>8, <2>2, <3>1
    <3> QED
      BY <2>1, <2>2, <3>2 DEF Accepts
  <2>3. CASE ~ h.adopted
    <3>1. \A q \in Used : Settled(q)
      BY <1>1, <1>3, <1>4, <2>3 DEF Settled
    <3>2. remote.boot = peer.boot
      BY <1>0, <3>1 DEF Followed
    <3>3. peer.boot # NoEpoch.boot
      BY <1>0, Types DEF NoEpoch, Boots
    <3> QED
      BY <2>1, <2>3, <3>2, <3>3 DEF Accepts
  <2> QED
    BY <1>9, <2>2, <2>3
<1> QED
  BY <1>3, <1>5, <1>6, <1>10, <1>11 DEF Handed

\* This end restarts or reopens its Bind.
LEMMA LocalHanded ==
    ASSUME IInv, Handed, Reopen \/ Restart
    PROVE  Handed'
<1>0. /\ Named /\ AdoptedUsed /\ Carried /\ AnnouncedBehind /\ TypeOK
  BY DEF Handed, IInv
<1>1. sent' = sent /\ Used' = Used /\ Used \subseteq Paths /\ local' # 0
  BY <1>0 DEF Reopen, Restart, Used, TypeOK
<1>2. Named' /\ Followed'
  BY <1>0, <1>1 DEF Named, Followed
<1>3. CASE Reopen
  <2>1. UNCHANGED <<reflector, reader, announced>>
    BY <1>3 DEF Reopen
  <2>2. AdoptedUsed' /\ Carried'
    BY <1>0, <1>1, <2>1 DEF AdoptedUsed, Carried
  <2>3. AnnouncedBehind'
    BY <1>0, <1>1, <2>1 DEF AnnouncedBehind, Announces
  <2> QED
    BY <1>2, <2>2, <2>3 DEF Handed
<1>4. CASE Restart
  <2>1. /\ \A q \in Paths : ~ reflector'[q].adopted /\ ~ reader'[q].adopted
        /\ \A b \in Boots : announced'[b] = 0
    BY <1>4 DEF Restart, FreshPath, Idle
  <2>2. AdoptedUsed' /\ Carried' /\ AnnouncedBehind'
    BY <2>1 DEF AdoptedUsed, Carried, AnnouncedBehind
  <2> QED
    BY <1>2, <2>2 DEF Handed
<1> QED
  BY <1>3, <1>4

LEMMA InitHanded == Init => Handed
<1> SUFFICES ASSUME Init PROVE Handed
  OBVIOUS
<1>1. /\ sent = {} /\ Used = {}
      /\ \A q \in Paths : ~ reflector[q].adopted /\ ~ reader[q].adopted
      /\ \A b \in Boots : announced[b] = 0
  BY DEF Init, Used, FreshPath, Idle
<1> QED
  BY <1>1 DEF Handed, Named, AdoptedUsed, Carried, AnnouncedBehind, Followed

LEMMA NextHanded == IInv /\ Handed /\ [Next]_vars => Handed'
<1> SUFFICES ASSUME IInv, Handed, [Next]_vars PROVE Handed'
  OBVIOUS
<1>0. TypeOK
  BY DEF IInv
<1>1. ASSUME NEW p \in Paths, SendProbe(p) \/ SendPaddedProbe(p) PROVE Handed'
  BY <1>1, EmitHanded DEF SendProbe, SendPaddedProbe
<1>2. CASE UNCHANGED vars
  <2>1. UNCHANGED <<peer, reflector, reader, remote, announced, local, sent>>
    BY <1>2 DEF vars
  <2>2. Probes' = Probes
    BY <2>1 DEF Probes
  <2> QED
    BY <1>0, <2>1, <2>2, KeepsHanded
<1> QED
  BY <1>0, <1>1, <1>2, OthersHanded, PeerRestartHanded, AcceptHanded, LearnHanded, LocalHanded
  DEF Next

LEMMA SpecHanded == Spec => []Handed
  BY InitHanded, NextHanded, SpecIInv, PTL DEF Spec

\* dispatchInbound hands every adoption to learn: whatever the order in which the
\* readers of any number of paths accept and learn, once all the paths in use
\* have adopted the peer's process and no reader is in between, the transport
\* speaks to that process.
THEOREM AdoptionLearned == Spec => []AdoptionReachesTransport
<1>1. IInv /\ Handed => AdoptionReachesTransport
  <2> SUFFICES ASSUME IInv, Handed, Used # {}, ~ HasPadded, ~ (local > 0),
                      \A p \in Used : /\ reflector[p].adopted
                                      /\ reflector[p].session = peer.boot
                                      /\ ~ reader[p].busy
               PROVE  remote.boot = peer.boot
    BY DEF AdoptionReachesTransport
  <2>1. local = 0 /\ Used \subseteq Paths
    BY DEF IInv, TypeOK, Used
  <2>2. \A p \in Used : Settled(p)
    BY <2>1 DEF Handed, Carried, Settled
  <2> QED
    BY <2>1, <2>2 DEF Handed, Followed
<1> QED
  BY <1>1, SpecIInv, SpecHanded, PTL

\* learn calls restarted() at most once for each process of a peer that is
\* reached over one path, however its probes are delayed and duplicated.
THEOREM RestartAnnouncedOnce == Spec => []AnnouncedOnce
<1>1. IsFiniteSet(Used)
  <2>1. Used \in SUBSET Paths
    BY DEF Used
  <2> QED
    BY <2>1, FS_Subset
<1>2. ASSUME Cardinality(Used) <= 1, NEW p \in Used, NEW q \in Used PROVE p = q
  <2>1. SUFFICES ASSUME p # q PROVE FALSE
    OBVIOUS
  <2>2. /\ IsFiniteSet(Used \ {p}) /\ Cardinality(Used \ {p}) = Cardinality(Used) - 1
        /\ Cardinality(Used) \in Nat /\ Cardinality(Used \ {p}) \in Nat
    BY <1>1, FS_RemoveElement, FS_CardinalityType
  <2>3. Cardinality(Used \ {p}) = 0
    BY <1>2, <2>2
  <2>4. Used \ {p} = {}
    BY <2>2, <2>3, FS_EmptySet
  <2> QED
    BY <2>1, <2>4
<1>3. Handed => AnnouncedOnce
  BY <1>2 DEF Handed, AnnouncedBehind, AnnouncedOnce
<1> QED
  BY <1>3, SpecHanded, PTL
=============================================================================
