SPECIFICATION FairSpec
CONSTANTS
    None = None
    Kinds = {"CloudEndpoint", "Domain", "IPPolicy"}
    Reclaims = TRUE
    Faults <- FaultKinds
    MaxFaults = 2
    MaxEdits = 2
    MaxObjects = 2
    MaxIds = 5
INVARIANTS
    NoOrphan
    RecordedAtRest
PROPERTIES
    CleanedBeforeRelease
    NeverDeletesLive
    
