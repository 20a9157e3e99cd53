SPECIFICATION Spec
CONSTANTS
    ingress = ingress
    gateway = gateway
    route = route
    policy = policy
    NoCh = NoCh
    Keys <- MCKeys3
    Full <- MCFull3
    ControllerOf <- MCControllerOf3
    SkipKeys = {ingress}
    MaxEvents = 0
    MaxFailures = 0
    MaxRestarts = 0
INVARIANTS
    NoLostSync
