CONSTANTS
    Packages = {"p"}
    Hashes = {1, 2}
    Pkg <- MCPkg
    Calls = {c1, c2}
    Requests = {}
    Streams = {}
    MaxDeploys = 2
    MaxClock = 0
    MaxCrashes = 0
    MaxFaults = 0
SPECIFICATION Spec
INVARIANTS RoutedHasRecord
