SPECIFICATION Spec
CONSTANTS
    None = None
    api = api
    agent = agent
    ingress = ingress
    service = service
    cloud = cloud
    aep = aep
    Procs = {api, agent}
    Leader = api
    Resources = {service}
    UserResources = {service}
    Foreign = {}
    Home <- MCHome
    Asks = {}
    Handlers <- MCHandlers
    Policy = "Retain"
    Registered = TRUE
    PauseCovers = {"reconciles", "notice"}
    Restarts <- EarlyRestarts
    MaxRestarts = 0
    MaxFailures = 0
    MaxCreates = 0
INVARIANTS
    FinalizersGone
