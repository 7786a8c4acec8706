\* Three flows, room for three datagrams, and the lanes of MCSendQueues.
SPECIFICATION Spec
CONSTANTS
  TCPFlows = {f}
  OtherFlows = {v}
  NoFlow = NoFlow
  Lanes <- SomeLanes
  Offers <- SomeOffers
  SlowRate = 50
  MaxPackets = 3
  SmallHeadroom = 1
  QueueAge = 3
  BulkAges = {2}
  RealtimeTarget = 1
  RealtimeInterval = 1
  Target = 1
  Interval = 1
  AckSpace = 8
  Acks = {7, 0, 1}
  MaxOffered = 4
  MaxTime = 2
INVARIANT FairTurns
PROPERTY HeadroomIsForSmall
INVARIANT SharesHold
CHECK_DEADLOCK FALSE
