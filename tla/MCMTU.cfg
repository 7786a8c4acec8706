SPECIFICATION Spec
CONSTANTS
  Floor = 2
  DefaultMTU = 4
  LocalMTU = 3
  PinnedMTU = 2
  Overhead = 1
  Confirmations = 2
  Rejections = 2
  Attempts = 4
  Deadline = 1
  Refresh = 3
  Dwell = 2
  MayClose = TRUE
  MaxEvents = 2
INVARIANT MeasuredRight
INVARIANT NothingStranded
PROPERTY LoosensAfterDwell
PROPERTY LinkFits
