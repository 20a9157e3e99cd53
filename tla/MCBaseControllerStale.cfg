SPECIFICATION Spec
CONSTANTS
    None = None
    Kinds = {"CloudEndpoint"}
    Reclaims = TRUE
    Faults = {"stale"}
    MaxFaults = 1
    MaxEdits = 0
    MaxObjects = 1
    MaxIds = 3
PROPERTIES
    AlwaysCleaned
