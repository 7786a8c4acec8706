SPECIFICATION Spec
CONSTANTS
    Window = 4
    Timeout = 2
    HoldFloor = 1
    Factor = 3
    Corroborate = 3
    Seqs <- Arrivals
    FirstSeqs = {1}
    HoldBounds <- Bounds
    MaxTime = 2
    MaxPins = 1
    MaxReady = 1
INVARIANTS
    RingInWindow
    HeadKept
    DeliveredInOrder
PROPERTIES
    HoldsBounded
CHECK_DEADLOCK FALSE
