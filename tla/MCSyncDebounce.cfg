SPECIFICATION FairSpec
CONSTANTS
    ingress = ingress
    gateway = gateway
    route = route
    policy = policy
    NoCh = NoCh
    Keys <- MCKeys
    Full <- MCFull
    ControllerOf <- MCControllerOf
    SkipKeys = {}
    MaxEvents = 1
    MaxFailures = 1
    MaxRestarts = 1
INVARIANTS
    OneSyncAtATime
    NoStrandedWaiter
    NoLostSync
PROPERTIES
    EventuallySynced
    
