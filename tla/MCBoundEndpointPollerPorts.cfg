SPECIFICATION Spec
CONSTANTS
    None = None
    a = a
    b = b
    hashA = hashA
    hashB = hashB
    e1 = e1
    URLs = {a, b}
    Names = {hashA, hashB}
    hashURL <- MCHashURL
    UrlOf <- MCUrlOf
    IDs = {e1}
    Min = 1
    Max = 3
    Fresh = TRUE
    Straddles = {}
    MaxChanges = 1
    MaxFailures = 0
    MaxRestarts = 0
INVARIANTS
    PortsUnique
