SPECIFICATION MCSpec
CONSTANTS
  x1 = x1
  x2 = x2
  Exits = {x1, x2}
  Order <- TwoExits
  AutoMode = AutoMode
  Cooldown = 2
  MaxRTT = 2
  MaxEvents = 2
  MaxCommands = 1
  MaxRefusals = 1
INVARIANT OneActiveExit
PROPERTY NoSwitchWithoutCause
PROPERTY NotLeftOnDeadExit
