SPECIFICATION Spec
CONSTANTS
  Paths = {p1, p2}
  Padded = TRUE
  UpAfter = 1
  MaxBoot = 2
  MaxGeneration = 2
  MaxProbes = 2
  MaxReplies = 1
  MaxLocal = 1
  MaxTurns = 2
SYMMETRY PathSymmetry
CONSTRAINT OnePathOrNoTurns
CHECK_DEADLOCK FALSE
INVARIANT AdoptionReachesTransport
INVARIANT AnnouncedOnce
PROPERTY AdoptionMonotone
