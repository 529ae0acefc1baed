CONSTANTS
    Packages = {"p"}
    Hashes = {1, 2}
    Pkg <- MCPkg
    Calls = {c1}
    Requests = {r1}
    Streams = {r1}
    MaxDeploys = 3
    MaxClock = 1
    MaxCrashes = 1
    MaxFaults = 1
SPECIFICATION FairSpec
INVARIANTS RoutedHasRecord ActiveIsRouted PlacementsMatchRoutes
PROPERTIES RestoreKeepsRouted CallsReturn StartCompletes
