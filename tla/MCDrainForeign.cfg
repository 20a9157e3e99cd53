SPECIFICATION Spec
CONSTANTS
    None = None
    api = api
    agent = agent
    ingress = ingress
    service = service
    cloud = cloud
    aep = aep
    Procs = {api, agent}
    Leader = api
    Resources = {ingress, cloud}
    UserResources = {ingress}
    Foreign = {ingress}
    Home <- MCHome
    Asks = {ingress, cloud}
    Handlers <- MCHandlers
    Policy = "Retain"
    Registered = TRUE
    PauseCovers = {"reconciles", "notice"}
    Restarts <- EarlyRestarts
    MaxRestarts = 0
    MaxFailures = 0
    MaxCreates = 0
PROPERTIES
    SparesForeign
