SPECIFICATION Spec
CONSTANTS
  s1 = s1
  s2 = s2
  Senders = {s1, s2}
  WanID <- WanIDs
  HubID = 0
  OwnIDs = {0, 1}
  Addrs = {a, b, c}
  NoAddr = NoAddr
  DeadAfter = 2
  DownAfter = 1
  RideThrough = 1
  UpAfterSuccesses = 2
  MaxDelay = 1
  MaxStarved = 1
  MaxEvents = 2
INVARIANT VerdictInTime
INVARIANT FailsOverInTime
SYMMETRY AddrSymmetry
