SPECIFICATION Spec
CONSTANTS
    None = None
    n1 = n1
    n2 = n2
    r1 = r1
    r2 = r2
    Names <- MCNames
    TargetOf <- MCTargetOf
    Ports = {1}
    Manager = Manager
    Replicas = {r1}
    Faults = {"change", "service", "listen", "crash", "user", "drain", "refresh"}
    MaxFaults = 1
    MaxObjects = 2
INVARIANTS NoMissedServices NoMissedListener
SYMMETRY NameSymmetry
