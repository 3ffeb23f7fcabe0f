SPECIFICATION Spec
CONSTANTS
    e1 = e1
    e2 = e2
    e3 = e3
    e4 = e4
    e5 = e5
    Ids <- RoutingIds
    TagSets <- RoutingTagSets
    Targets <- RoutingTargets
    Epochs <- RoutingEpochs
    Endpoints = {ea}
    Pingers = {p1}
SYMMETRY RoutingSymmetry
PROPERTIES NoSimulationFallback MaintenanceIsSticky
