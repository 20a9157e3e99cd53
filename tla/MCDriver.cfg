SPECIFICATION Behaviours
CONSTANTS
    None = None
    sa = sa
    sb = sb
    sc = sc
    Names = {"h"}
    Specs = {s1, s2}
    MaxEvents = 3
INVARIANTS
    TypesOK
    RoutedRight
    
    HostsMerged
    
    OnlyGranted
    FiltersAsAsked
    
    FinalizersFit
    
    EndpointsConverge
PROPERTIES
    StatusKept
    OthersSpared
SYMMETRY SpecSymmetry
CHECK_DEADLOCK FALSE
