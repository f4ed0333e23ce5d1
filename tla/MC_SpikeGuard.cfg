SPECIFICATION Spec
CONSTANTS
    Requests = {r1, r2, r3}
    Capacity = 2
    Refill = 1
    MaxClock = 2
INVARIANTS
    WindowBound
PROPERTIES
    DenialJustified
    CreditClock
