SPECIFICATION Spec
CONSTANTS
    e1 = e1
    e2 = e2
    e3 = e3
    e4 = e4
    e5 = e5
    Ids <- FencingIds
    TagSets <- FencingTagSets
    Targets <- FencingTargets
    Epochs <- FencingEpochs
    Endpoints = {ea, eb}
    Pingers = {p1, p2}
SYMMETRY FencingSymmetry
INVARIANTS TypeOK RouteIsVouched LiveMatchesDisk OneLiveProbe
PROPERTIES StaleStaysStale ConfigurationIsAtomic
