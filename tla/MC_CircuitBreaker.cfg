SPECIFICATION FairSpec
CONSTANTS
    Requests = {r1, r2}
    Threshold = 2
    Cooldown = 1
    MaxClock = 4
INVARIANTS
    CooldownEnds
    TripPointBounded
PROPERTIES
    AdmissionRespectsCircuit
    OpenClosesOnlyThroughTrial
    NeverWedged
