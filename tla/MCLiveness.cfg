SPECIFICATION FairSpec
CONSTANTS
    e1 = e1
    e2 = e2
    e3 = e3
    e4 = e4
    Endpoints = {ea}
    Pingers = {p1}
    Runs = {r1}
    NoRun = NoRun
PROPERTIES HealthyRunnerIsRouted OrphanStops CancelEnds
