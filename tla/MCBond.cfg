SPECIFICATION Spec
CONSTANTS
  l1 = l1
  l2 = l2
  Lanes = {l1, l2}
  WindowBits = 2
  LaneBits = 1
  ReceiptBits = 1
  RepairTail = 1
  MaxAttempts = 2
  MaxSeq = 3
  MaxFrames = 3
  MaxAcks = 2
  MaxRestarts = 1
SYMMETRY LaneSymmetry
CHECK_DEADLOCK FALSE
INVARIANT AtMostOnce
INVARIANT AckedArrived
INVARIANT InflightExact
INVARIANT ReceiptsReported
