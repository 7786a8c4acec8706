\* Two configured paths and one to add; the bind is opened twice and reloaded once.
SPECIFICATION Spec
CONSTANTS
  a = a
  b = b
  c = c
  Paths = {a, b, c}
  Boot <- BootTwo
  Peers = {p1, p2}
  Desired <- Files
  MaxPathID = 2
  MaxOpens = 2
  MaxReloads = 1
  MaxFaults = 1
  MaxMoves = 1
INVARIANT MembershipWhole
INVARIANT RetiredIsQuiet
CHECK_DEADLOCK FALSE
PROPERTY TransitionsReturn
PROPERTY DeferredPromoted
