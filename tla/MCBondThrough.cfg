SPECIFICATION Spec
CONSTANTS
  l1 = l1
  Lanes = {l1}
  WindowBits = 2
  LaneBits = 1
  ReceiptBits = 1
  RepairTail = 1
  MaxAttempts = 2
  MaxSeq = 1
  MaxFrames = 2
  MaxAcks = 1
  MaxRestarts = 1
INVARIANT ThroughOfThisEpoch
SYMMETRY LaneSymmetry
CHECK_DEADLOCK FALSE
