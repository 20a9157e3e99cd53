SPECIFICATION FairSpec
CONSTANTS
    None = None
    api = api
    agent = agent
    ingress = ingress
    service = service
    cloud = cloud
    aep = aep
    Procs = {api, agent}
    Leader = api
    Resources = {ingress, cloud, aep}
    UserResources = {ingress}
    Foreign = {}
    Home <- MCHome
    Asks = {ingress, cloud, aep}
    Handlers <- MCHandlers
    Policy = "Delete"
    Registered = TRUE
    PauseCovers = {"reconciles", "notice"}
    Restarts <- EarlyRestarts
    MaxRestarts = 1
    MaxFailures = 1
    MaxCreates = 1
INVARIANTS
    FinalizersGone
    RemotesDeleted
    DeregisteredInOrder
PROPERTIES
    
    DrainEnds
