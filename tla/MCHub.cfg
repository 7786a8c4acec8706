SPECIFICATION MCSpec
CONSTANTS
  a1 = a1
  a2 = a2
  nowhere = nowhere
  Addrs = {a1, a2}
  NoAddr = nowhere
  NSpecs = 2
  Names = {1, 2}
  Settle = 2
  Detect = 1
  MaxExpansion = 2
  MaxChanges = 1
  MaxFailures = 1
  PollInterval = 1
  Edited = {1}
  MaxEdits = 1
 
PROPERTY NoStepWithoutCause
PROPERTY PromisesKept
 
PROPERTY NamesFollow
