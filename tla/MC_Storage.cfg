SPECIFICATION StorageSpec
CONSTANTS
    Limit = 2
    Window = 3
    Max = 2
    Period = 3
    MaxCount = 4
    MaxClock = 7
    Suffixes = {s1, s2, s3}
    Calls = {c1, c2}
    MaxAllowed = 4
SYMMETRY Symmetry
CHECK_DEADLOCK FALSE
INVARIANTS
    NoBurst
    QuotaRespected
    OverrunBounded
PROPERTIES
    ImplementsRateWindow
    ImplementsQuotaPeriod
    EveryCallBoundsThePeriod
    PeriodsApart
