SPECIFICATION Spec
CONSTANTS
  Peers = {hub, p1}
  Primary = hub
  NoPeer = none
  Sources = {s1, s2, s3}
  Readers = {r1, r2}
  MaxDemuxSources = 2
  MaxBinds = 3
PROPERTY Isolation
PROPERTY ReceiverReturns
