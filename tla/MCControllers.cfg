SPECIFICATION Behaviours
CONSTANTS
    None = None
    n1 = n1
    n2 = n2
    a1 = a1
    a2 = a2
    e1 = e1
    e2 = e2
    r1 = r1
    Specs <- AllSpecs
    Names = {n1, n2}
    Addrs = {a1, a2}
    Policies = {p1}
    MaxEvents = 2
    Replicas = {r1}
    AepNames = {e1, e2}
    Inputs = {"policy", "secret"}
    AepSpecs <- AllAepSpecs
    Contents = {"ok", "new", "bad"}
    Pooling = {TRUE, FALSE}
    MaxAepEvents = 3
    Ids = {i1, i2, i3, i4}
    MaxKeys = 4
    MaxTroubles = 3
INVARIANTS
    TypesOK
    ServiceSettles
    
    RegisteredOnce
    CertificateFitsKey
PROPERTIES
    AddressKept
CHECK_DEADLOCK FALSE
