SPECIFICATION FairSpec
CONSTANTS
    Pods = {p1}
    Apis <- ThreeIds
    Defs <- AllDefs
    None = None
    FileDefs <- OneFile
    Slots = {s1}
    QueueCap = 1
    MaxWrites = 2
    MaxFaults = 1
INVARIANTS
    FreshAfterNudge
    TableCoherent
    FilesStayRouted
PROPERTIES
    ReloadsLand
